---- MODULE Spec2Model ----
(***************************************************************************)
(* Shared-memory arena allocators of Mooncake:                             *)
(*   - MmapArena  (mooncake-store/src/mmap_arena.cpp, first definition):    *)
(*     mutex-guarded initialize, lock-free CAS-loop allocate;               *)
(*   - ShmArena   (tent/src/transport/shm, shm_arena.cpp as carried in      *)
(*     README_ARENA.md lines 420-829): fetch_add / fetch_sub allocate.      *)
(* size_t / uint64_t / uintptr_t values are WordBits-bit unsigned integers; *)
(* every C++ arithmetic result is reduced modulo 2^WordBits (Wrap).         *)
(***************************************************************************)
EXTENDS Integers, Naturals, Sequences, FiniteSets, Bags, TLC

\* ------------------------------------------------------------------ bounds
\* Width of size_t in the model (the code has 64; the model keeps the wrap).
WordBits == 24
\* Threads that call into one arena concurrently.
NumThreads == 2
\* Calls made on one arena, all threads together.
MaxCalls == 3

\* ------------------------------------------------------- program constants
HUGE_PAGE_SIZE == 2097152
MIN_ALIGNMENT == 64
PAGE_SIZE == 4096

Pow2(n) == 2 ^ n
SIZE_MAX == Pow2(WordBits) - 1
Wrap(x) == x % (SIZE_MAX + 1)
NULL == 0
NoThread == 0
Threads == 1 .. NumThreads

\* ------------------------------------------------------- machine arithmetic
RECURSIVE BitAndRec(_, _, _)
BitAndRec(x, y, n) ==
    IF n = 0 \/ x = 0 \/ y = 0 THEN 0
    ELSE (IF x % 2 = 1 /\ y % 2 = 1 THEN 1 ELSE 0)
         + 2 * BitAndRec(x \div 2, y \div 2, n - 1)
\* x & y on WordBits-bit words
BitAnd(x, y) == BitAndRec(x, y, WordBits)
\* ~x on WordBits-bit words
BitNot(x) == SIZE_MAX - x
Max(a, b) == IF a >= b THEN a ELSE b

\* Round x up to a multiple of a, over the unbounded integers (a > 0).
MathAlignUp(x, a) == ((x + a - 1) \div a) * a

\* ============================================================== MmapArena
VARIABLES
    pool_base_,          \* std::atomic<void*>   (NULL until published)
    pool_size_,          \* std::atomic<size_t>
    alignment_,          \* std::atomic<size_t>
    alloc_cursor_,       \* std::atomic<size_t>
    peak_allocated_,     \* std::atomic<size_t>
    num_allocations_,    \* std::atomic<size_t>
    num_failed_allocs_,  \* std::atomic<size_t>
    init_mutex_,         \* std::mutex: the holding thread, or NoThread
    pc,                  \* per thread: position inside the running call
    frame,               \* per thread: arguments and locals of the running call
    calls,               \* calls started so far
    ret,                 \* what the call that returned last returned, and to whom
    allocated,           \* bag of the allocations handed out (non-null returns)
    failed_returns,      \* allocate calls on the initialized arena, for a non-zero
                         \* size, that returned null
    init_log             \* initialize calls: successes, valid calls, mmap failures

mmapVars == << pool_base_, pool_size_, alignment_, alloc_cursor_, peak_allocated_,
               num_allocations_, num_failed_allocs_, init_mutex_, pc, frame, calls,
               ret, allocated, failed_returns, init_log >>

\* mmap_arena.cpp:14-29
safe_align_up_unchecked(size, alignment) ==
    IF size = 0 THEN [ok |-> TRUE, result |-> 0]
    ELSE IF alignment = 0 \/ BitAnd(alignment, alignment - 1) # 0
         THEN [ok |-> FALSE, result |-> 0]
    ELSE [ok |-> TRUE,
          result |-> BitAnd(Wrap(size + alignment - 1), BitNot(alignment - 1))]

safe_align_up(size, alignment) ==
    IF size = 0 THEN [ok |-> TRUE, result |-> 0]
    ELSE IF alignment = 0 \/ BitAnd(alignment, alignment - 1) # 0
         THEN [ok |-> FALSE, result |-> 0]
    ELSE IF size > SIZE_MAX - alignment + 1
         THEN [ok |-> FALSE, result |-> 0]
    ELSE [ok |-> TRUE,
          result |-> BitAnd(Wrap(size + alignment - 1), BitNot(alignment - 1))]

\* ---------------------------------------------------------------- inputs
MAP_FAILED == SIZE_MAX
\* Addresses mmap may return: huge-page aligned (MAP_HUGETLB honoured) or only
\* page aligned (the retry without MAP_HUGETLB).
MmapBases == { HUGE_PAGE_SIZE, HUGE_PAGE_SIZE + PAGE_SIZE }
\* initialize(pool_size, alignment): zero size, bad alignment, a pool that
\* rounds to one huge page, one that rounds to two, and one whose round-up
\* overflows.
InitArgs == { << 0, 0 >>, << 1024, 100 >>, << 1024, 0 >>,
              << HUGE_PAGE_SIZE + 1, 128 >>, << SIZE_MAX, 0 >> }
\* allocate(size, alignment): zero size, a small block, a bad per-call
\* alignment, a whole huge page, a huge-page aligned block, and sizes whose
\* round-up or end offset passes SIZE_MAX.
AllocArgs == { << 0, 0 >>, << 100, 0 >>, << 100, 100 >>, << HUGE_PAGE_SIZE, 0 >>,
               << 100, HUGE_PAGE_SIZE >>, << SIZE_MAX - 100, 0 >>, << SIZE_MAX, 0 >> }

IdleFrame == [ op |-> "none" ]
NoRet == [ op |-> "none" ]

\* mmap_arena.cpp:96-109: both mmap attempts; the kernel never returns a
\* mapping that runs past the end of the address space.
mmap_results(length) ==
    { MAP_FAILED } \cup { b \in MmapBases : b + length <= SIZE_MAX }

\* mmap_arena.cpp:58 (std::lock_guard on init_mutex_)
lock_unguarded(m) == TRUE

lock_available(m) == m = NoThread

\* The arena's alignment alone, whatever the call asks for.
effective_alignment_of_arena(base_alignment, alignment) == base_alignment

\* mmap_arena.cpp:143-144
effective_alignment(base_alignment, alignment) == Max(base_alignment, alignment)

\* mmap_arena.cpp:177
out_of_pool_unchecked(aligned_offset, next, pool_size) == FALSE

out_of_pool_no_wrap_check(aligned_offset, next, pool_size) == next > pool_size

out_of_pool(aligned_offset, next, pool_size) ==
    next < aligned_offset \/ next > pool_size

\* mmap_arena.cpp:189-191: compare_exchange_weak may succeed only when the
\* cursor still holds the expected value.
cas_blind(current, expected) == TRUE

cas_may_succeed(current, expected) == current = expected

\* owns with the end of the pool counted in.
owns_inclusive(ptr) ==
    IF ptr = NULL \/ pool_base_ = NULL THEN FALSE
    ELSE ptr >= pool_base_ /\ ptr <= Wrap(pool_base_ + pool_size_)

\* mmap_arena.cpp:231-241
owns(ptr) ==
    IF ptr = NULL \/ pool_base_ = NULL THEN FALSE
    ELSE ptr >= pool_base_ /\ ptr < Wrap(pool_base_ + pool_size_)

\* mmap_arena.cpp:221-229
getStats ==
    [ pool_size |-> pool_size_, allocated_bytes |-> alloc_cursor_,
      peak_allocated |-> peak_allocated_, num_allocations |-> num_allocations_,
      num_failed_allocs |-> num_failed_allocs_ ]

\* ------------------------------------------------------------ MmapArena()
\* mmap_arena.cpp:31-40
MmapInit ==
    /\ pool_base_ = NULL
    /\ pool_size_ = 0
    /\ alignment_ = MIN_ALIGNMENT
    /\ alloc_cursor_ = 0
    /\ peak_allocated_ = 0
    /\ num_allocations_ = 0
    /\ num_failed_allocs_ = 0
    /\ init_mutex_ = NoThread
    /\ pc = [ t \in Threads |-> "idle" ]
    /\ frame = [ t \in Threads |-> IdleFrame ]
    /\ calls = 0
    /\ ret = NoRet
    /\ allocated = EmptyBag
    /\ failed_returns = 0
    /\ init_log = [ wins |-> 0, winner |-> IdleFrame, valid_calls |-> 0,
                     mmap_failures |-> 0 ]

\* A call starts: it takes the next call number.
CallStart(t) ==
    /\ pc[t] = "idle"
    /\ calls < MaxCalls
    /\ calls' = calls + 1

\* The initialize call of thread t returns false.
InitFail(t, why) ==
    /\ ret' = [ op |-> "initialize", ok |-> FALSE, why |-> why ]
    /\ pc' = [ pc EXCEPT ![t] = "idle" ]
    /\ frame' = [ frame EXCEPT ![t] = IdleFrame ]
    /\ UNCHANGED init_mutex_

\* mmap_arena.cpp:53-113: lock, validate, check pool_base_, round, mmap.
InitEnter(t, pool_size, alignment) ==
    /\ CallStart(t)
    /\ lock_available(init_mutex_)
    /\ UNCHANGED << pool_base_, pool_size_, alignment_, alloc_cursor_, peak_allocated_,
                    num_allocations_, num_failed_allocs_, allocated, failed_returns >>
    /\ IF pool_size = 0
       THEN InitFail(t, "zero_size") /\ UNCHANGED init_log
       ELSE IF alignment # 0 /\ BitAnd(alignment, alignment - 1) # 0
       THEN InitFail(t, "bad_alignment") /\ UNCHANGED init_log
       ELSE IF pool_base_ # NULL
       THEN /\ InitFail(t, "already")
            /\ init_log' = [ init_log EXCEPT !.valid_calls = @ + 1 ]
       ELSE LET actual_alignment == Max(alignment, MIN_ALIGNMENT)
                r == safe_align_up(pool_size, HUGE_PAGE_SIZE)
            IN  IF ~r.ok
                THEN InitFail(t, "overflow") /\ UNCHANGED init_log
                ELSE \E m \in mmap_results(r.result) :
                       IF m = MAP_FAILED
                       THEN /\ InitFail(t, "mmap")
                            /\ init_log' = [ init_log EXCEPT !.valid_calls = @ + 1,
                                                             !.mmap_failures = @ + 1 ]
                       ELSE /\ init_mutex_' = t
                            /\ pc' = [ pc EXCEPT ![t] = "init_store_alignment" ]
                            /\ frame' = [ frame EXCEPT ![t] =
                                 [ op |-> "initialize",
                                   pool_size |-> pool_size,
                                   alignment |-> alignment,
                                   actual_alignment |-> actual_alignment,
                                   aligned_pool_size |-> r.result,
                                   pool_base |-> m ] ]
                            /\ UNCHANGED ret
                            /\ UNCHANGED init_log

\* The store of alignment_ with pool_base_ published in the same breath,
\* ahead of pool_size_.
InitPublishEarly(t) ==
    /\ pc[t] = "init_store_alignment"
    /\ alignment_' = frame[t].actual_alignment
    /\ pool_base_' = frame[t].pool_base
    /\ pc' = [ pc EXCEPT ![t] = "init_store_pool_size" ]
    /\ UNCHANGED << pool_size_, alloc_cursor_, peak_allocated_,
                    num_allocations_, num_failed_allocs_, init_mutex_, frame, calls,
                    ret, allocated, failed_returns, init_log >>

\* mmap_arena.cpp:118
InitStoreAlignment(t) ==
    /\ pc[t] = "init_store_alignment"
    /\ alignment_' = frame[t].actual_alignment
    /\ pc' = [ pc EXCEPT ![t] = "init_store_pool_size" ]
    /\ UNCHANGED << pool_base_, pool_size_, alloc_cursor_, peak_allocated_,
                    num_allocations_, num_failed_allocs_, init_mutex_, frame, calls,
                    ret, allocated, failed_returns, init_log >>

\* mmap_arena.cpp:119
InitStorePoolSize(t) ==
    /\ pc[t] = "init_store_pool_size"
    /\ pool_size_' = frame[t].aligned_pool_size
    /\ pc' = [ pc EXCEPT ![t] = "init_publish" ]
    /\ UNCHANGED << pool_base_, alignment_, alloc_cursor_, peak_allocated_,
                    num_allocations_, num_failed_allocs_, init_mutex_, frame, calls,
                    ret, allocated, failed_returns, init_log >>

\* mmap_arena.cpp:120-127: release-store of pool_base_, unlock, return true.
InitPublish(t) ==
    /\ pc[t] = "init_publish"
    /\ pool_base_' = frame[t].pool_base
    /\ init_mutex_' = NoThread
    /\ ret' = [ op |-> "initialize", ok |-> TRUE, why |-> "ok" ]
    /\ init_log' = [ init_log EXCEPT
                       !.valid_calls = @ + 1,
                       !.wins = @ + 1,
                       !.winner = frame[t] ]
    /\ pc' = [ pc EXCEPT ![t] = "idle" ]
    /\ frame' = [ frame EXCEPT ![t] = IdleFrame ]
    /\ UNCHANGED << pool_size_, alignment_, alloc_cursor_, peak_allocated_,
                    num_allocations_, num_failed_allocs_, calls, allocated, failed_returns >>

\* ------------------------------------------------------ MmapArena::allocate
\* The allocate call of thread t returns ptr (NULL on failure); f holds what
\* it computed.
AllocReturn(t, ptr, why, f) ==
    /\ ret' = f @@ [ ptr |-> ptr, why |-> why ]
    /\ allocated' = IF ptr = NULL THEN allocated
                    ELSE allocated (+) SetToBag({ [ ptr |-> ptr,
                                                    offset |-> f.aligned_offset,
                                                    size |-> f.aligned_size,
                                                    requested |-> f.size,
                                                    alignment |-> f.alignment,
                                                    effective_alignment |->
                                                        f.effective_alignment ] })
    /\ failed_returns' =
          IF ptr = NULL /\ why \notin { "not_initialized", "zero_size" }
          THEN failed_returns + 1 ELSE failed_returns
    /\ pc' = [ pc EXCEPT ![t] = "idle" ]
    /\ frame' = [ frame EXCEPT ![t] = IdleFrame ]

AllocFrame(size, alignment) ==
    [ op |-> "allocate", size |-> size, alignment |-> alignment,
      effective_alignment |-> 0, aligned_size |-> 0, pool_base |-> NULL,
      pool_size |-> 0, raw |-> 0, aligned_offset |-> 0, next |-> 0, old_peak |-> 0 ]

\* mmap_arena.cpp:129-155: acquire-load of pool_base_, the size check, the
\* effective alignment, the size round-up and the load of pool_size_.
AllocBegin(t, size, alignment) ==
    /\ CallStart(t)
    /\ UNCHANGED << pool_base_, pool_size_, alignment_, alloc_cursor_, peak_allocated_,
                    num_allocations_, init_mutex_, init_log >>
    /\ LET f0 == AllocFrame(size, alignment)
       IN  IF pool_base_ = NULL
           THEN /\ AllocReturn(t, NULL, "not_initialized", f0)
                /\ UNCHANGED num_failed_allocs_
           ELSE IF size = 0
           THEN /\ AllocReturn(t, NULL, "zero_size",
                               [ f0 EXCEPT !.pool_base = pool_base_ ])
                /\ UNCHANGED num_failed_allocs_
           ELSE LET ea == effective_alignment(alignment_, alignment)
                    r == safe_align_up(size, ea)
                    f1 == [ f0 EXCEPT !.pool_base = pool_base_,
                                      !.effective_alignment = ea,
                                      !.pool_size = pool_size_ ]
                IN  IF ~r.ok
                    THEN /\ num_failed_allocs_' = Wrap(num_failed_allocs_ + 1)
                         /\ AllocReturn(t, NULL, "size_overflow", f1)
                    ELSE /\ pc' = [ pc EXCEPT ![t] = "load_cursor" ]
                         /\ frame' = [ frame EXCEPT ![t] =
                                         [ f1 EXCEPT !.aligned_size = r.result ] ]
                         /\ UNCHANGED ret
                         /\ UNCHANGED << num_failed_allocs_, allocated, failed_returns >>

\* allocate load by load, for callers that race with initialize.
\* mmap_arena.cpp:129-138: the acquire load of pool_base_ and the two tests.
AllocLoadBase(t, size, alignment) ==
    /\ CallStart(t)
    /\ UNCHANGED << pool_base_, pool_size_, alignment_, alloc_cursor_, peak_allocated_,
                    num_allocations_, num_failed_allocs_, init_mutex_, init_log >>
    /\ LET f0 == AllocFrame(size, alignment)
       IN  IF pool_base_ = NULL
           THEN AllocReturn(t, NULL, "not_initialized", f0)
           ELSE IF size = 0
           THEN AllocReturn(t, NULL, "zero_size", [ f0 EXCEPT !.pool_base = pool_base_ ])
           ELSE /\ pc' = [ pc EXCEPT ![t] = "load_alignment" ]
                /\ frame' = [ frame EXCEPT ![t] = [ f0 EXCEPT !.pool_base = pool_base_ ] ]
                /\ UNCHANGED << ret, allocated, failed_returns >>

\* mmap_arena.cpp:143-153: the relaxed load of alignment_ and the round-up
\* of the size.
AllocLoadAlignment(t) ==
    /\ pc[t] = "load_alignment"
    /\ UNCHANGED << pool_base_, pool_size_, alignment_, alloc_cursor_, peak_allocated_,
                    num_allocations_, init_mutex_, calls, init_log >>
    /\ LET ea == effective_alignment(alignment_, frame[t].alignment)
           r == safe_align_up(frame[t].size, ea)
           f1 == [ frame[t] EXCEPT !.effective_alignment = ea ]
       IN  IF ~r.ok
           THEN /\ num_failed_allocs_' = Wrap(num_failed_allocs_ + 1)
                /\ AllocReturn(t, NULL, "size_overflow", f1)
           ELSE /\ pc' = [ pc EXCEPT ![t] = "load_pool_size" ]
                /\ frame' = [ frame EXCEPT ![t] = [ f1 EXCEPT !.aligned_size = r.result ] ]
                /\ UNCHANGED << num_failed_allocs_, ret, allocated, failed_returns >>

\* mmap_arena.cpp:155: the acquire load of pool_size_.
AllocLoadPoolSize(t) ==
    /\ pc[t] = "load_pool_size"
    /\ frame' = [ frame EXCEPT ![t].pool_size = pool_size_ ]
    /\ pc' = [ pc EXCEPT ![t] = "load_cursor" ]
    /\ UNCHANGED << pool_base_, pool_size_, alignment_, alloc_cursor_, peak_allocated_,
                    num_allocations_, num_failed_allocs_, init_mutex_, calls,
                    ret, allocated, failed_returns, init_log >>

\* mmap_arena.cpp:164
AllocLoadCursor(t) ==
    /\ pc[t] = "load_cursor"
    /\ frame' = [ frame EXCEPT ![t].raw = alloc_cursor_ ]
    /\ pc' = [ pc EXCEPT ![t] = "cas" ]
    /\ UNCHANGED << pool_base_, pool_size_, alignment_, alloc_cursor_, peak_allocated_,
                    num_allocations_, num_failed_allocs_, init_mutex_, calls,
                    ret, allocated, failed_returns, init_log >>

\* The bump allocation of the earlier revision (mmap_arena.cpp:339-349):
\* fetch_add first, bounds check afterwards, the cursor left advanced on failure.
AllocTryFetchAdd(t) ==
    /\ pc[t] = "cas"
    /\ UNCHANGED << pool_base_, pool_size_, alignment_, peak_allocated_,
                    num_allocations_, init_mutex_, calls, init_log >>
    /\ LET f == frame[t]
           next == Wrap(alloc_cursor_ + f.aligned_size)
           f2 == [ f EXCEPT !.raw = alloc_cursor_, !.aligned_offset = alloc_cursor_,
                            !.next = next ]
       IN  /\ alloc_cursor_' = next
           /\ IF next > f.pool_size
              THEN /\ num_failed_allocs_' = Wrap(num_failed_allocs_ + 1)
                   /\ AllocReturn(t, NULL, "oom", f2)
              ELSE /\ frame' = [ frame EXCEPT ![t] = f2 ]
                   /\ pc' = [ pc EXCEPT ![t] = "count" ]
                   /\ UNCHANGED << num_failed_allocs_, ret, allocated, failed_returns >>

\* mmap_arena.cpp:166-195: offset round-up, bounds check, then the CAS.
AllocTry(t) ==
    /\ pc[t] = "cas"
    /\ UNCHANGED << pool_base_, pool_size_, alignment_, peak_allocated_,
                    num_allocations_, init_mutex_, calls, init_log >>
    /\ LET f == frame[t]
           r == safe_align_up(f.raw, f.effective_alignment)
           next == Wrap(r.result + f.aligned_size)
           f2 == [ f EXCEPT !.aligned_offset = r.result, !.next = next ]
       IN  IF ~r.ok
           THEN /\ num_failed_allocs_' = Wrap(num_failed_allocs_ + 1)
                /\ AllocReturn(t, NULL, "offset_overflow", f)
                /\ UNCHANGED alloc_cursor_
           ELSE IF out_of_pool(r.result, next, f.pool_size)
           THEN /\ num_failed_allocs_' = Wrap(num_failed_allocs_ + 1)
                /\ AllocReturn(t, NULL, "oom", f2)
                /\ UNCHANGED alloc_cursor_
           ELSE \/ /\ cas_may_succeed(alloc_cursor_, f.raw)
                   /\ alloc_cursor_' = next
                   /\ frame' = [ frame EXCEPT ![t] = f2 ]
                   /\ pc' = [ pc EXCEPT ![t] = "count" ]
                   /\ UNCHANGED << num_failed_allocs_, ret, allocated, failed_returns >>
                \/ \* the CAS fails (another thread moved the cursor, or spuriously)
                   /\ frame' = [ frame EXCEPT ![t].raw = alloc_cursor_ ]
                   /\ pc' = [ pc EXCEPT ![t] = "load_cursor" ]
                   /\ UNCHANGED << alloc_cursor_, num_failed_allocs_, ret, allocated, failed_returns >>

\* mmap_arena.cpp:198
AllocCount(t) ==
    /\ pc[t] = "count"
    /\ num_allocations_' = Wrap(num_allocations_ + 1)
    /\ pc' = [ pc EXCEPT ![t] = "load_peak" ]
    /\ UNCHANGED << pool_base_, pool_size_, alignment_, alloc_cursor_, peak_allocated_,
                    num_failed_allocs_, init_mutex_, frame, calls, ret, allocated, failed_returns,
                    init_log >>

\* mmap_arena.cpp:202
AllocLoadPeak(t) ==
    /\ pc[t] = "load_peak"
    /\ frame' = [ frame EXCEPT ![t].old_peak = peak_allocated_ ]
    /\ pc' = [ pc EXCEPT ![t] = "peak_cas" ]
    /\ UNCHANGED << pool_base_, pool_size_, alignment_, alloc_cursor_, peak_allocated_,
                    num_allocations_, num_failed_allocs_, init_mutex_, calls,
                    ret, allocated, failed_returns, init_log >>

\* The peak update with a plain store in place of the compare-exchange.
AllocPeakStore(t) ==
    /\ pc[t] = "peak_cas"
    /\ UNCHANGED << pool_base_, pool_size_, alignment_, alloc_cursor_,
                    num_allocations_, num_failed_allocs_, init_mutex_, calls,
                    init_log >>
    /\ LET f == frame[t]
           ptr == Wrap(f.pool_base + f.aligned_offset)
       IN  /\ AllocReturn(t, ptr, "ok", f)
           /\ peak_allocated_' = IF f.next > f.old_peak THEN f.next
                                  ELSE peak_allocated_

\* The peak loop with an expected value that a failed compare-exchange leaves
\* as it was.
AllocPeakNoReload(t) ==
    /\ pc[t] = "peak_cas"
    /\ UNCHANGED << pool_base_, pool_size_, alignment_, alloc_cursor_,
                    num_allocations_, num_failed_allocs_, init_mutex_, calls,
                    init_log >>
    /\ LET f == frame[t]
           ptr == Wrap(f.pool_base + f.aligned_offset)
       IN  IF ~(f.next > f.old_peak)
           THEN /\ AllocReturn(t, ptr, "ok", f)
                /\ UNCHANGED peak_allocated_
           ELSE \/ /\ peak_allocated_ = f.old_peak
                   /\ peak_allocated_' = f.next
                   /\ AllocReturn(t, ptr, "ok", f)
                \/ UNCHANGED << peak_allocated_, pc, frame, ret, allocated,
                                failed_returns >>

\* mmap_arena.cpp:203-218: one turn of the peak loop; leaving the loop returns
\* pool_base + aligned_offset.
AllocPeak(t) ==
    /\ pc[t] = "peak_cas"
    /\ UNCHANGED << pool_base_, pool_size_, alignment_, alloc_cursor_,
                    num_allocations_, num_failed_allocs_, init_mutex_, calls,
                    init_log >>
    /\ LET f == frame[t]
           ptr == Wrap(f.pool_base + f.aligned_offset)
       IN  IF ~(f.next > f.old_peak)
           THEN /\ AllocReturn(t, ptr, "ok", f)
                /\ UNCHANGED peak_allocated_
           ELSE \/ /\ peak_allocated_ = f.old_peak
                   /\ peak_allocated_' = f.next
                   /\ AllocReturn(t, ptr, "ok", f)
                \/ \* the CAS fails and reloads old_peak
                   /\ frame' = [ frame EXCEPT ![t].old_peak = peak_allocated_ ]
                   /\ UNCHANGED << peak_allocated_, pc, ret, allocated, failed_returns >>

\* ---------------------------------------------------------- MmapArena::owns
\* mmap_arena.cpp:231-241: thread t calls owns(ptr); the call takes no lock and
\* changes nothing. pool_size_ is stored before pool_base_ is published and
\* neither changes afterwards, so the two loads see one state.
OwnsCall(t, ptr) ==
    /\ pc[t] = "idle"
    /\ ret' = [ op |-> "owns", ptr |-> ptr, result |-> owns(ptr),
                pool_base |-> pool_base_, pool_size |-> pool_size_ ]
    /\ UNCHANGED << pool_base_, pool_size_, alignment_, alloc_cursor_, peak_allocated_,
                    num_allocations_, num_failed_allocs_, init_mutex_, pc, frame,
                    calls, allocated, failed_returns, init_log >>

\* The pointers a caller asks about: null, the top of the address space, and
\* the ends of the pool (of the places mmap may choose, before there is one).
OwnsProbes ==
    { NULL, SIZE_MAX } \cup
    ( IF pool_base_ = NULL THEN MmapBases
      ELSE { pool_base_ - 1, pool_base_, pool_base_ + pool_size_ - 1,
             pool_base_ + pool_size_ } )

\* =============================================================== ShmArena
\* One ShmArena object used by the threads of one process (shm_arena.h:232-256).
VARIABLES
    shm,                     \* the plain fields: initialized_, is_owner_, shm_name_,
                             \* shm_fd_, pool_base_, pool_size_, config_
    shm_alloc_cursor_,       \* std::atomic<uint64_t>
    shm_peak_allocated_,     \* std::atomic<uint64_t>
    shm_num_allocations_,    \* std::atomic<uint64_t>
    shm_num_failed_allocs_,  \* std::atomic<uint64_t>
    shm_objects,             \* the host's shared-memory names, each with its size
    shm_pc,                  \* per thread: position inside the running call
    shm_frame,               \* per thread: arguments and locals of the running call
    shm_calls,               \* allocate and reset calls started so far
    shm_ret,                 \* what the call that returned last returned
    shm_allocated,           \* bag of the allocation handles returned with OK, each
                             \* with the number of resets that preceded its return
    shm_failed_returns,      \* allocate calls on the initialized arena, for a
                             \* non-zero size, that returned an error
    shm_resets,              \* successful reset() calls so far
    shm_oversized_request    \* some allocate so far was asked for more than a page

shmVars == << shm, shm_alloc_cursor_, shm_peak_allocated_, shm_num_allocations_,
              shm_num_failed_allocs_, shm_objects, shm_pc, shm_frame, shm_calls,
              shm_ret, shm_allocated, shm_failed_returns, shm_resets,
                    shm_oversized_request >>

\* allocate and reset calls made on the ShmArena, all threads together.
ShmMaxCalls == 4

NO_FD == -1
\* The descriptor shm_open returns.
ARENA_FD == 3
\* Where mmap places the shared mapping.
SHM_BASE == 1048576

\* Config values: pool_size and alignment (shm_arena.h:56-71).
ShmConfigs == { [ pool_size |-> 256, alignment |-> 64 ],
                [ pool_size |-> 0, alignment |-> 64 ] }
\* allocate(size): zero, one cache line, more than the small pool holds, and
\* sizes whose round-up passes SIZE_MAX.
ShmAllocSizes == { 0, 64, 300, SIZE_MAX - 100, SIZE_MAX }
\* How far the system calls of initialize get.
ShmSyscallOutcomes == { "ok", "shm_open", "ftruncate", "mmap" }

\* README_ARENA.md:482-483: prefix + pid + "_" + arena_id; one arena, one name.
ShmNameOf(config) == "/mooncake_arena_1_0"

\* shm_arena.h:220-222
alignUp(size, alignment) ==
    BitAnd(Wrap(size + alignment - 1), BitNot(Wrap(alignment - 1)))

\* shm_arena.h:234-256 and README_ARENA.md:451: the object after construction.
ShmInit ==
    /\ shm = [ initialized_ |-> FALSE, is_owner_ |-> FALSE, shm_name_ |-> "",
               shm_fd_ |-> NO_FD, pool_base_ |-> NULL, pool_size_ |-> 0,
               config_ |-> [ pool_size |-> 0, alignment |-> MIN_ALIGNMENT ] ]
    /\ shm_alloc_cursor_ = 0
    /\ shm_peak_allocated_ = 0
    /\ shm_num_allocations_ = 0
    /\ shm_num_failed_allocs_ = 0
    /\ shm_objects = {}
    /\ shm_pc = [ t \in Threads |-> "idle" ]
    /\ shm_frame = [ t \in Threads |-> IdleFrame ]
    /\ shm_calls = 0
    /\ shm_ret = NoRet
    /\ shm_allocated = EmptyBag
    /\ shm_failed_returns = 0
    /\ shm_resets = 0
    /\ shm_oversized_request = FALSE

ShmCallStart(t) ==
    /\ shm_pc[t] = "idle"
    /\ shm_calls < ShmMaxCalls
    /\ shm_calls' = shm_calls + 1

\* README_ARENA.md:473-546. initialize takes no lock, so it is run here while
\* no other call is in progress on the object.
ShmInitialize(t, config, outcome) ==
    /\ \A u \in Threads : shm_pc[u] = "idle"
    /\ UNCHANGED << shm_pc, shm_frame, shm_calls, shm_allocated, shm_failed_returns, shm_resets,
                    shm_oversized_request >>
    /\ IF shm.initialized_
       THEN /\ shm_ret' = [ op |-> "initialize", status |-> "InvalidArgument",
                             config |-> config ]
            /\ UNCHANGED << shm, shm_alloc_cursor_, shm_peak_allocated_,
                            shm_num_allocations_, shm_num_failed_allocs_, shm_objects >>
       ELSE LET name == ShmNameOf(config)
                s0 == [ shm EXCEPT !.config_ = config, !.pool_size_ = config.pool_size,
                                   !.shm_name_ = name ]
                exists == \E o \in shm_objects : o.name = name
            IN  IF outcome = "shm_open" \/ exists
                THEN \* O_CREAT | O_EXCL fails
                     /\ shm' = s0
                     /\ shm_ret' = [ op |-> "initialize", status |-> "InternalError",
                                      config |-> config ]
                     /\ UNCHANGED << shm_alloc_cursor_, shm_peak_allocated_,
                                     shm_num_allocations_, shm_num_failed_allocs_,
                                     shm_objects >>
                ELSE IF outcome \in { "ftruncate", "mmap" } \/ config.pool_size = 0
                THEN \* close, shm_unlink, return (mmap refuses a length of 0)
                     /\ shm' = [ s0 EXCEPT !.is_owner_ = TRUE ]
                     /\ shm_ret' = [ op |-> "initialize", status |-> "InternalError",
                                      config |-> config ]
                     /\ UNCHANGED << shm_alloc_cursor_, shm_peak_allocated_,
                                     shm_num_allocations_, shm_num_failed_allocs_,
                                     shm_objects >>
                ELSE /\ shm' = [ s0 EXCEPT !.is_owner_ = TRUE, !.shm_fd_ = ARENA_FD,
                                           !.pool_base_ = SHM_BASE,
                                           !.initialized_ = TRUE ]
                     /\ shm_objects' = shm_objects \cup
                                         { [ name |-> name, size |-> config.pool_size ] }
                     /\ shm_alloc_cursor_' = 0
                     /\ shm_peak_allocated_' = 0
                     /\ shm_num_allocations_' = 0
                     /\ shm_num_failed_allocs_' = 0
                     /\ shm_ret' = [ op |-> "initialize", status |-> "OK",
                                      config |-> config ]

\* The allocate call of thread t returns; f holds what it computed.
ShmAllocReturn(t, status, f) ==
    /\ shm_ret' = [ op |-> "allocate", status |-> status ]
    /\ shm_allocated' =
          IF status = "OK"
          THEN shm_allocated (+)
                 SetToBag({ [ addr |-> Wrap(shm.pool_base_ + f.offset),
                              offset |-> f.offset, size |-> f.aligned_size,
                              requested |-> f.size, after_resets |-> shm_resets ] })
          ELSE shm_allocated
    /\ shm_failed_returns' =
          IF status = "InternalError" THEN shm_failed_returns + 1
          ELSE shm_failed_returns
    /\ shm_pc' = [ shm_pc EXCEPT ![t] = "idle" ]
    /\ shm_frame' = [ shm_frame EXCEPT ![t] = IdleFrame ]

ShmAllocFrame(size) ==
    [ op |-> "allocate", size |-> size, aligned_size |-> 0, offset |-> 0,
      old_peak |-> 0 ]

\* README_ARENA.md:604-620: the checks, the round-up, the fetch_add and the
\* comparison that picks the branch.
ShmAllocFetchAdd(t, size) ==
    /\ ShmCallStart(t)
    /\ shm_oversized_request' = (shm_oversized_request \/ size > PAGE_SIZE)
    /\ UNCHANGED << shm, shm_peak_allocated_, shm_num_allocations_,
                    shm_num_failed_allocs_, shm_objects, shm_resets >>
    /\ IF ~shm.initialized_ \/ size = 0
       THEN /\ ShmAllocReturn(t, "InvalidArgument", ShmAllocFrame(size))
            /\ UNCHANGED shm_alloc_cursor_
       ELSE LET aligned_size == alignUp(size, shm.config_.alignment)
                offset == shm_alloc_cursor_
                f == [ ShmAllocFrame(size) EXCEPT !.aligned_size = aligned_size,
                                                  !.offset = offset ]
            IN  /\ shm_alloc_cursor_' = Wrap(shm_alloc_cursor_ + aligned_size)
                /\ shm_frame' = [ shm_frame EXCEPT ![t] = f ]
                /\ shm_pc' = [ shm_pc EXCEPT ![t] =
                                 IF Wrap(offset + aligned_size) > shm.pool_size_
                                 THEN "undo" ELSE "count" ]
                /\ UNCHANGED << shm_ret, shm_allocated, shm_failed_returns >>

\* README_ARENA.md:622: fetch_sub undoes the reservation.
ShmAllocUndo(t) ==
    /\ shm_pc[t] = "undo"
    /\ shm_alloc_cursor_' = Wrap(shm_alloc_cursor_ - shm_frame[t].aligned_size)
    /\ shm_pc' = [ shm_pc EXCEPT ![t] = "count_failure" ]
    /\ UNCHANGED << shm, shm_peak_allocated_, shm_num_allocations_,
                    shm_num_failed_allocs_, shm_objects, shm_frame, shm_calls,
                    shm_ret, shm_allocated, shm_failed_returns, shm_resets,
                    shm_oversized_request >>

\* The failure branch without its fetch_add on num_failed_allocs_.
ShmAllocFailureUncounted(t) ==
    /\ shm_pc[t] = "count_failure"
    /\ ShmAllocReturn(t, "InternalError", shm_frame[t])
    /\ UNCHANGED << shm, shm_alloc_cursor_, shm_peak_allocated_, shm_num_allocations_,
                    shm_num_failed_allocs_, shm_objects, shm_calls, shm_resets,
                    shm_oversized_request >>

\* README_ARENA.md:623-629
ShmAllocCountFailure(t) ==
    /\ shm_pc[t] = "count_failure"
    /\ shm_num_failed_allocs_' = Wrap(shm_num_failed_allocs_ + 1)
    /\ ShmAllocReturn(t, "InternalError", shm_frame[t])
    /\ UNCHANGED << shm, shm_alloc_cursor_, shm_peak_allocated_, shm_num_allocations_,
                    shm_objects, shm_calls, shm_resets,
                    shm_oversized_request >>

\* README_ARENA.md:632-636
ShmAllocCount(t) ==
    /\ shm_pc[t] = "count"
    /\ shm_num_allocations_' = Wrap(shm_num_allocations_ + 1)
    /\ shm_pc' = [ shm_pc EXCEPT ![t] = "load_peak" ]
    /\ UNCHANGED << shm, shm_alloc_cursor_, shm_peak_allocated_,
                    shm_num_failed_allocs_, shm_objects, shm_frame, shm_calls, shm_ret,
                    shm_allocated, shm_failed_returns, shm_resets,
                    shm_oversized_request >>

\* README_ARENA.md:638-639
ShmAllocLoadPeak(t) ==
    /\ shm_pc[t] = "load_peak"
    /\ shm_frame' = [ shm_frame EXCEPT ![t].old_peak = shm_peak_allocated_ ]
    /\ shm_pc' = [ shm_pc EXCEPT ![t] = "peak_cas" ]
    /\ UNCHANGED << shm, shm_alloc_cursor_, shm_peak_allocated_, shm_num_allocations_,
                    shm_num_failed_allocs_, shm_objects, shm_calls, shm_ret,
                    shm_allocated, shm_failed_returns, shm_resets,
                    shm_oversized_request >>

\* README_ARENA.md:640-652: one turn of the peak loop; leaving it fills the
\* handle and returns OK.
ShmAllocPeak(t) ==
    /\ shm_pc[t] = "peak_cas"
    /\ UNCHANGED << shm, shm_alloc_cursor_, shm_num_allocations_,
                    shm_num_failed_allocs_, shm_objects, shm_calls, shm_resets,
                    shm_oversized_request >>
    /\ LET f == shm_frame[t]
           new_peak == Wrap(f.offset + f.aligned_size)
       IN  IF ~(new_peak > f.old_peak)
           THEN /\ ShmAllocReturn(t, "OK", f)
                /\ UNCHANGED shm_peak_allocated_
           ELSE \/ /\ shm_peak_allocated_ = f.old_peak
                   /\ shm_peak_allocated_' = new_peak
                   /\ ShmAllocReturn(t, "OK", f)
                \/ \* the CAS fails and reloads old_peak
                   /\ shm_frame' = [ shm_frame EXCEPT ![t].old_peak = shm_peak_allocated_ ]
                   /\ UNCHANGED << shm_peak_allocated_, shm_pc, shm_ret, shm_allocated, shm_failed_returns >>

\* reset without its store to the cursor.
ShmResetKeepsCursor(t) ==
    /\ ShmCallStart(t)
    /\ UNCHANGED << shm, shm_peak_allocated_, shm_num_allocations_,
                    shm_num_failed_allocs_, shm_objects, shm_pc, shm_frame,
                    shm_allocated, shm_failed_returns, shm_oversized_request,
                    shm_alloc_cursor_ >>
    /\ IF ~shm.initialized_
       THEN /\ shm_ret' = [ op |-> "reset", status |-> "InvalidArgument" ]
            /\ UNCHANGED shm_resets
       ELSE /\ shm_resets' = shm_resets + 1
            /\ shm_ret' = [ op |-> "reset", status |-> "OK" ]

\* README_ARENA.md:697-712
ShmReset(t) ==
    /\ ShmCallStart(t)
    /\ UNCHANGED << shm, shm_peak_allocated_, shm_num_allocations_,
                    shm_num_failed_allocs_, shm_objects, shm_pc, shm_frame,
                    shm_allocated, shm_failed_returns, shm_oversized_request >>
    /\ IF ~shm.initialized_
       THEN /\ shm_ret' = [ op |-> "reset", status |-> "InvalidArgument" ]
            /\ UNCHANGED << shm_alloc_cursor_, shm_resets >>
       ELSE /\ shm_alloc_cursor_' = 0
            /\ shm_resets' = shm_resets + 1
            /\ shm_ret' = [ op |-> "reset", status |-> "OK" ]

\* README_ARENA.md:714-726
ShmGetStats ==
    [ pool_size |-> shm.pool_size_, allocated_bytes |-> shm_alloc_cursor_,
      peak_allocated |-> shm_peak_allocated_,
      num_allocations |-> shm_num_allocations_,
      num_failed_allocs |-> shm_num_failed_allocs_ ]

\* ------------------------------------- ShmArena::initialize, step by step
\* initialize takes no lock and its fields are plain members, so calls from
\* several threads interleave statement by statement (README_ARENA.md:473-546).
VARIABLES
    shm_init_log             \* returns of initialize: how many OK, how many
                             \* "already initialized", how many other errors,
                             \* and the configuration of the call that returned OK

initVars == << shm_init_log >>

\* Configurations initialize accepts as they are (shm_arena.h:56-71).
ValidShmConfigs == { [ pool_size |-> 256, alignment |-> 64 ],
                     [ pool_size |-> PAGE_SIZE, alignment |-> 64 ] }

ShmInitLogInit ==
    shm_init_log = [ ok |-> 0, already |-> 0, other |-> 0,
                     winner |-> [ pool_size |-> 0, alignment |-> MIN_ALIGNMENT ] ]

\* A step of initialize that touches only the plain fields.
ShmInitStep(t, from, to, new_shm) ==
    /\ shm_pc[t] = from
    /\ shm' = new_shm
    /\ shm_pc' = [ shm_pc EXCEPT ![t] = to ]
    /\ UNCHANGED << shm_alloc_cursor_, shm_peak_allocated_, shm_num_allocations_,
                    shm_num_failed_allocs_, shm_objects, shm_frame, shm_calls,
                    shm_ret, shm_allocated, shm_failed_returns, shm_resets, shm_oversized_request,
                    shm_init_log >>

\* initialize of thread t returns status.
ShmInitReturn(t, status) ==
    /\ shm_ret' = [ op |-> "initialize", status |-> status ]
    /\ shm_init_log' =
          IF status = "OK"
          THEN [ shm_init_log EXCEPT !.ok = @ + 1, !.winner = shm_frame[t].config ]
          ELSE IF status = "InvalidArgument"
          THEN [ shm_init_log EXCEPT !.already = @ + 1 ]
          ELSE [ shm_init_log EXCEPT !.other = @ + 1 ]
    /\ shm_pc' = [ shm_pc EXCEPT ![t] = "idle" ]
    /\ shm_frame' = [ shm_frame EXCEPT ![t] = IdleFrame ]

\* README_ARENA.md:474-476
ShmInitCheck(t, config) ==
    /\ ShmCallStart(t)
    /\ UNCHANGED << shm, shm_alloc_cursor_, shm_peak_allocated_, shm_num_allocations_,
                    shm_num_failed_allocs_, shm_objects, shm_allocated, shm_failed_returns, shm_resets,
                    shm_oversized_request >>
    /\ IF shm.initialized_
       THEN /\ shm_ret' = [ op |-> "initialize", status |-> "InvalidArgument" ]
            /\ shm_init_log' = [ shm_init_log EXCEPT !.already = @ + 1 ]
            /\ UNCHANGED << shm_pc, shm_frame >>
       ELSE /\ shm_pc' = [ shm_pc EXCEPT ![t] = "init_store_config" ]
            /\ shm_frame' = [ shm_frame EXCEPT ![t] =
                               [ op |-> "initialize", config |-> config ] ]
            /\ UNCHANGED << shm_ret, shm_init_log >>

\* README_ARENA.md:478
ShmInitStoreConfig(t) ==
    ShmInitStep(t, "init_store_config", "init_store_pool_size",
                [ shm EXCEPT !.config_ = shm_frame[t].config ])

\* README_ARENA.md:479
ShmInitStorePoolSize(t) ==
    ShmInitStep(t, "init_store_pool_size", "init_store_name",
                [ shm EXCEPT !.pool_size_ = shm_frame[t].config.pool_size ])

\* README_ARENA.md:482-483
ShmInitStoreName(t) ==
    ShmInitStep(t, "init_store_name", "init_open",
                [ shm EXCEPT !.shm_name_ = ShmNameOf(shm_frame[t].config) ])

\* README_ARENA.md:486-487: shm_open with O_CREAT | O_EXCL creates an empty
\* object, or fails when the name exists; the result is stored in shm_fd_.
ShmInitOpen(t) ==
    /\ shm_pc[t] = "init_open"
    /\ LET exists == \E o \in shm_objects : o.name = shm.shm_name_
       IN  /\ shm' = [ shm EXCEPT !.shm_fd_ = IF exists THEN NO_FD ELSE ARENA_FD ]
           /\ shm_objects' = IF exists THEN shm_objects
                             ELSE shm_objects \cup
                                    { [ name |-> shm.shm_name_, size |-> 0 ] }
    /\ shm_pc' = [ shm_pc EXCEPT ![t] = "init_check_fd" ]
    /\ UNCHANGED << shm_alloc_cursor_, shm_peak_allocated_, shm_num_allocations_,
                    shm_num_failed_allocs_, shm_frame, shm_calls, shm_ret,
                    shm_allocated, shm_failed_returns, shm_resets, shm_oversized_request, shm_init_log >>

\* README_ARENA.md:488-493: the test reads the member shm_fd_.
ShmInitCheckFd(t) ==
    /\ shm_pc[t] = "init_check_fd"
    /\ UNCHANGED << shm, shm_alloc_cursor_, shm_peak_allocated_, shm_num_allocations_,
                    shm_num_failed_allocs_, shm_objects, shm_calls, shm_allocated, shm_failed_returns,
                    shm_resets, shm_oversized_request >>
    /\ IF shm.shm_fd_ < 0
       THEN ShmInitReturn(t, "InternalError")
       ELSE /\ shm_pc' = [ shm_pc EXCEPT ![t] = "init_owner" ]
            /\ UNCHANGED << shm_frame, shm_ret, shm_init_log >>

\* README_ARENA.md:495
ShmInitOwner(t) ==
    ShmInitStep(t, "init_owner", "init_ftruncate", [ shm EXCEPT !.is_owner_ = TRUE ])

\* README_ARENA.md:502-503, 519-523: close, shm_unlink and the error return
\* shared by the ftruncate and the mmap failure.
ShmInitAbort(t, new_shm) ==
    /\ shm' = new_shm
    /\ shm_objects' = { o \in shm_objects : o.name # shm.shm_name_ }
    /\ ShmInitReturn(t, "InternalError")

\* README_ARENA.md:498-505: ftruncate64(shm_fd_, pool_size_) fails on a
\* descriptor that is not open and otherwise sets the object's size.
ShmInitFtruncate(t) ==
    /\ shm_pc[t] = "init_ftruncate"
    /\ UNCHANGED << shm_alloc_cursor_, shm_peak_allocated_, shm_num_allocations_,
                    shm_num_failed_allocs_, shm_calls, shm_allocated, shm_failed_returns, shm_resets,
                    shm_oversized_request >>
    /\ IF shm.shm_fd_ < 0
       THEN ShmInitAbort(t, [ shm EXCEPT !.shm_fd_ = NO_FD ])
       ELSE /\ shm_objects' = { IF o.name = shm.shm_name_
                                THEN [ o EXCEPT !.size = shm.pool_size_ ] ELSE o :
                                o \in shm_objects }
            /\ shm_pc' = [ shm_pc EXCEPT ![t] = "init_mmap" ]
            /\ UNCHANGED << shm, shm_frame, shm_ret, shm_init_log >>

\* README_ARENA.md:507-525: mmap(pool_size_, shm_fd_) fails on a descriptor
\* that is not open and on a length of 0.
ShmInitMmap(t) ==
    /\ shm_pc[t] = "init_mmap"
    /\ UNCHANGED << shm_alloc_cursor_, shm_peak_allocated_, shm_num_allocations_,
                    shm_num_failed_allocs_, shm_calls, shm_allocated, shm_failed_returns, shm_resets,
                    shm_oversized_request >>
    /\ IF shm.shm_fd_ < 0 \/ shm.pool_size_ = 0
       THEN ShmInitAbort(t, [ shm EXCEPT !.shm_fd_ = NO_FD, !.pool_base_ = NULL ])
       ELSE /\ shm' = [ shm EXCEPT !.pool_base_ = SHM_BASE ]
            /\ shm_pc' = [ shm_pc EXCEPT ![t] = "init_counters" ]
            /\ UNCHANGED << shm_objects, shm_frame, shm_ret, shm_init_log >>

\* README_ARENA.md:538-541
ShmInitCounters(t) ==
    /\ shm_pc[t] = "init_counters"
    /\ shm_alloc_cursor_' = 0
    /\ shm_peak_allocated_' = 0
    /\ shm_num_allocations_' = 0
    /\ shm_num_failed_allocs_' = 0
    /\ shm_pc' = [ shm_pc EXCEPT ![t] = "init_done" ]
    /\ UNCHANGED << shm, shm_objects, shm_frame, shm_calls, shm_ret, shm_allocated, shm_failed_returns,
                    shm_resets, shm_oversized_request, shm_init_log >>

\* README_ARENA.md:544-545
ShmInitDone(t) ==
    /\ shm_pc[t] = "init_done"
    /\ shm' = [ shm EXCEPT !.initialized_ = TRUE ]
    /\ ShmInitReturn(t, "OK")
    /\ UNCHANGED << shm_alloc_cursor_, shm_peak_allocated_, shm_num_allocations_,
                    shm_num_failed_allocs_, shm_objects, shm_calls, shm_allocated, shm_failed_returns,
                    shm_resets, shm_oversized_request >>

\* ------------------------------------------ ShmArena objects of a process
\* Several ShmArena objects, the shared-memory objects of the host and the
\* bytes in them, under calls made one at a time.
VARIABLES
    arenas,          \* per object: the members of shm_arena.h:233-256, whether it
                     \* is alive, and which region pool_base_ maps
    regions,         \* shared-memory objects: id, name, size, creator, linked
    region_mem,      \* the bytes written so far: region, offset, value
    life_allocs,     \* allocation handles returned with OK
    life_written,    \* the writes still standing: through which arena and
                     \* handle, at which index, which value
    life_unlinked,   \* shm_unlink calls that removed a name: name, by, creator
    life_ret,        \* what the last call returned
    life_steps       \* calls made so far

lifeVars == << arenas, regions, region_mem, life_allocs, life_written,
               life_unlinked, life_ret, life_steps >>

\* ShmArena objects constructed.
NumArenas == 2
\* Calls made on the objects, all together.
LifeMaxSteps == 4

ArenaIds == 1 .. NumArenas
NoName == << >>
NoRegion == 0
\* README_ARENA.md:482-483: prefix, pid and arena_id_; one process here.
ArenaName(arena_id) == << "/mooncake_arena_", arena_id >>
\* mmap places the mappings of different objects at different addresses.
MapBase(i) == SHM_BASE * i
\* The descriptor shm_open returns for a region.
FdOf(region) == ARENA_FD + region - 1

\* initialize(config) and how far its system calls get: a pool of 256 bytes
\* with each call failing in turn, and a pool of 0 bytes.
InitializeCases == { << [ pool_size |-> 256, alignment |-> 64 ], "ok" >>,
                     << [ pool_size |-> 256, alignment |-> 64 ], "shm_open" >>,
                     << [ pool_size |-> 256, alignment |-> 64 ], "ftruncate" >>,
                     << [ pool_size |-> 256, alignment |-> 64 ], "mmap" >>,
                     << [ pool_size |-> 0, alignment |-> 64 ], "ok" >> }
\* attach(name, expected_size) and how far its system calls get: the right
\* size with each call failing in turn, and a wrong size.
AttachCases == { << 256, "ok" >>, << 256, "shm_open" >>, << 256, "fstat" >>,
                 << 256, "mmap" >>, << 64, "ok" >> }
LifeAllocSizes == { 64, 300, SIZE_MAX }
\* translateOffset(offset, size): inside, the last byte, past the end with
\* size 0, across the end, and a sum that passes SIZE_MAX.
TranslateArgs == { << 0, 64 >>, << 255, 1 >>, << 256, 0 >>, << 200, 100 >>,
                   << SIZE_MAX, 2 >> }
Bytes == { 1, 2 }

\* shm_arena.h:233-256, README_ARENA.md:449-452
NewArena ==
    [ constructed |-> FALSE, alive |-> TRUE, initialized_ |-> FALSE, is_owner_ |-> FALSE,
      shm_name_ |-> NoName, shm_fd_ |-> NO_FD, pool_base_ |-> NULL,
      pool_size_ |-> 0, config_ |-> [ pool_size |-> 0, alignment |-> MIN_ALIGNMENT ],
      alloc_cursor_ |-> 0, peak_allocated_ |-> 0, num_allocations_ |-> 0,
      num_failed_allocs_ |-> 0, mapping |-> NoRegion ]

LifeInit ==
    /\ arenas = [ i \in ArenaIds |-> NewArena ]
    /\ regions = {}
    /\ region_mem = {}
    /\ life_allocs = {}
    /\ life_written = {}
    /\ life_unlinked = {}
    /\ life_ret = NoRet
    /\ life_steps = 0

\* The linked region of that name, as a set of at most one element.
Linked(name) == { r \in regions : r.linked /\ r.name = name }

\* shm_unlink(name): removes the name; the object lives on while it is mapped.
Unlink(regs, name) ==
    { IF r.linked /\ r.name = name THEN [ r EXCEPT !.linked = FALSE ] ELSE r : r \in regs }

\* The shm_unlink calls of arena i on name that took a name away.
UnlinkLog(regs, name, i) ==
    { [ name |-> name, by |-> i, creator |-> r.creator ] :
        r \in { x \in regs : x.linked /\ x.name = name } }

\* README_ARENA.md:474, 549
already_initialized_unchecked(a) == FALSE

already_initialized(a) == a.initialized_

\* shm_arena.h:201: the names getName() has returned so far; an attacher is
\* given one of them.
KnownNames == { arenas[n].shm_name_ : n \in ArenaIds } \ { NoName }

\* README_ARENA.md:449-452: arena_id_ numbers the objects in the order of
\* their construction; an object is constructed when it is first used.
Constructed(a) == [ a EXCEPT !.constructed = TRUE ]

LifeStep(i) ==
    /\ life_steps < LifeMaxSteps
    /\ arenas[i].alive
    /\ \A j \in ArenaIds : j < i => arenas[j].constructed
    /\ life_steps' = life_steps + 1

\* README_ARENA.md:506-510: MAP_SHARED, with MAP_HUGETLB when the
\* configuration asks for huge pages (shm_arena.h:64, false by default).
mmap_flags(config) ==
    IF "use_huge_pages" \in DOMAIN config /\ config.use_huge_pages
    THEN { "MAP_SHARED", "MAP_HUGETLB" }
    ELSE { "MAP_SHARED" }

\* README_ARENA.md:512-517: the one mmap call of initialize fails: for every
\* flag ("mmap"), for a length of 0, or only with MAP_HUGETLB ("hugetlb": no
\* huge pages are available, a mapping without the flag would succeed).
mmap_fails(config, outcome) ==
    \/ outcome = "mmap"
    \/ config.pool_size = 0
    \/ outcome = "hugetlb" /\ "MAP_HUGETLB" \in mmap_flags(config)

\* pool_base_ left holding what the failed mmap returned.
map_failed_base_kept == MAP_FAILED

\* README_ARENA.md:519-523: pool_base_ = nullptr after MAP_FAILED.
map_failed_base == NULL

\* README_ARENA.md:473-546
LifeInitialize(i, config, outcome) ==
    /\ LifeStep(i)
    /\ UNCHANGED << region_mem, life_allocs, life_written >>
    /\ LET a == Constructed(arenas[i])
           name == ArenaName(i)
           a0 == [ a EXCEPT !.config_ = config, !.pool_size_ = config.pool_size,
                            !.shm_name_ = name ]
           rid == Cardinality(regions) + 1
           created == regions \cup { [ id |-> rid, name |-> name, size |-> 0,
                                       creator |-> i, linked |-> TRUE ] }
           sized == { IF r.id = rid THEN [ r EXCEPT !.size = config.pool_size ]
                      ELSE r : r \in created }
           fail(status) == life_ret' = [ op |-> "initialize", arena |-> i,
                                         status |-> status, why |-> outcome ]
       IN  IF already_initialized(a)
           THEN /\ life_ret' = [ op |-> "initialize", arena |-> i,
                                 status |-> "InvalidArgument", why |-> "already" ]
                /\ arenas' = [ arenas EXCEPT ![i] = a ]
                /\ UNCHANGED << regions, life_unlinked >>
           ELSE IF outcome = "shm_open" \/ Linked(name) # {}
           THEN \* O_CREAT | O_EXCL fails
                /\ arenas' = [ arenas EXCEPT ![i] = [ a0 EXCEPT !.shm_fd_ = NO_FD ] ]
                /\ fail("InternalError")
                /\ UNCHANGED << regions, life_unlinked >>
           ELSE IF outcome = "ftruncate"
           THEN /\ arenas' = [ arenas EXCEPT ![i] =
                                 [ a0 EXCEPT !.is_owner_ = TRUE, !.shm_fd_ = NO_FD ] ]
                /\ regions' = Unlink(created, name)
                /\ life_unlinked' = life_unlinked \cup UnlinkLog(created, name, i)
                /\ fail("InternalError")
           ELSE IF mmap_fails(config, outcome)
           THEN /\ arenas' = [ arenas EXCEPT ![i] =
                                 [ a0 EXCEPT !.is_owner_ = TRUE, !.shm_fd_ = NO_FD,
                                             !.pool_base_ = map_failed_base ] ]
                /\ regions' = Unlink(sized, name)
                /\ life_unlinked' = life_unlinked \cup UnlinkLog(sized, name, i)
                /\ fail("InternalError")
           ELSE /\ arenas' = [ arenas EXCEPT ![i] =
                                 [ a0 EXCEPT !.is_owner_ = TRUE, !.shm_fd_ = FdOf(rid),
                                             !.pool_base_ = MapBase(i),
                                             !.mapping = rid,
                                             !.alloc_cursor_ = 0,
                                             !.peak_allocated_ = 0,
                                             !.num_allocations_ = 0,
                                             !.num_failed_allocs_ = 0,
                                             !.initialized_ = TRUE ] ]
                /\ regions' = sized
                /\ life_ret' = [ op |-> "initialize", arena |-> i, status |-> "OK",
                                 why |-> "ok" ]
                /\ UNCHANGED life_unlinked

\* attach maps whatever size the region has.
size_unchecked(st_size, expected_size) == TRUE

\* README_ARENA.md:575-581
size_matches(st_size, expected_size) == st_size = expected_size

\* README_ARENA.md:548-602
LifeAttach(i, arena_name, expected_size, outcome) ==
    /\ LifeStep(i)
    /\ UNCHANGED << regions, region_mem, life_allocs, life_written, life_unlinked >>
    /\ LET a == Constructed(arenas[i])
           a0 == [ a EXCEPT !.shm_name_ = arena_name, !.pool_size_ = expected_size ]
           found == Linked(arena_name)
           r == CHOOSE x \in found : TRUE
           a1 == [ a0 EXCEPT !.is_owner_ = FALSE, !.shm_fd_ = NO_FD ]
           return(status, why, arena) ==
               /\ arenas' = [ arenas EXCEPT ![i] = arena ]
               /\ life_ret' = [ op |-> "attach", arena |-> i, status |-> status,
                                why |-> why ]
       IN  IF already_initialized(a)
           THEN return("InvalidArgument", "already", a)
           ELSE IF outcome = "shm_open" \/ found = {}
           THEN return("InternalError", "shm_open", [ a0 EXCEPT !.shm_fd_ = NO_FD ])
           ELSE IF outcome = "fstat"
           THEN return("InternalError", "fstat", a1)
           ELSE IF ~size_matches(r.size, expected_size)
           THEN return("InvalidArgument", "size_mismatch", a1)
           ELSE IF outcome = "mmap" \/ expected_size = 0
           THEN return("InternalError", "mmap", [ a1 EXCEPT !.pool_base_ = NULL ])
           ELSE return("OK", "ok",
                       [ a0 EXCEPT !.is_owner_ = FALSE, !.shm_fd_ = FdOf(r.id),
                                   !.pool_base_ = MapBase(i), !.mapping = r.id,
                                   !.initialized_ = TRUE ])

\* README_ARENA.md:454-471
LifeDestroy(i) ==
    /\ LifeStep(i)
    /\ UNCHANGED << region_mem, life_allocs, life_written >>
    /\ LET a == Constructed(arenas[i])
           unlinks == a.is_owner_ /\ a.shm_name_ # NoName
       IN  /\ arenas' = [ arenas EXCEPT ![i] =
                            [ a EXCEPT !.alive = FALSE, !.pool_base_ = NULL,
                                       !.mapping = NoRegion, !.shm_fd_ = NO_FD,
                                       !.initialized_ = FALSE ] ]
           /\ regions' = IF unlinks THEN Unlink(regions, a.shm_name_) ELSE regions
           /\ life_unlinked' = IF unlinks
                               THEN life_unlinked \cup UnlinkLog(regions, a.shm_name_, i)
                               ELSE life_unlinked
           /\ life_ret' = [ op |-> "destroy", arena |-> i, status |-> "OK",
                            why |-> "ok" ]

\* README_ARENA.md:604-653, one call running alone.
LifeAllocate(i, size) ==
    /\ LifeStep(i)
    /\ UNCHANGED << regions, region_mem, life_written, life_unlinked >>
    /\ LET a == Constructed(arenas[i])
           aligned_size == alignUp(size, a.config_.alignment)
           offset == a.alloc_cursor_
           end == Wrap(offset + aligned_size)
           alloc == [ arena |-> i, addr |-> Wrap(a.pool_base_ + offset),
                      offset |-> offset, size |-> aligned_size ]
       IN  IF ~a.initialized_ \/ size = 0
           THEN /\ life_ret' = [ op |-> "allocate", arena |-> i,
                                 status |-> "InvalidArgument", why |-> "argument" ]
                /\ arenas' = [ arenas EXCEPT ![i] = a ]
                /\ UNCHANGED life_allocs
           ELSE IF end > a.pool_size_
           THEN \* fetch_add, then fetch_sub
                /\ arenas' = [ arenas EXCEPT ![i] =
                                 [ a EXCEPT !.num_failed_allocs_ = Wrap(@ + 1) ] ]
                /\ life_ret' = [ op |-> "allocate", arena |-> i,
                                 status |-> "InternalError", why |-> "oom" ]
                /\ UNCHANGED life_allocs
           ELSE /\ arenas' = [ arenas EXCEPT ![i] =
                                 [ a EXCEPT !.alloc_cursor_ = end,
                                            !.num_allocations_ = Wrap(@ + 1),
                                            !.peak_allocated_ = Max(@, end) ] ]
                /\ life_allocs' = life_allocs \cup { alloc }
                /\ life_ret' = [ op |-> "allocate", arena |-> i, status |-> "OK",
                                 why |-> "ok" ]

\* shm_arena.h:224-227
isValidRange(a, offset, size) == Wrap(offset + size) <= a.pool_size_

\* The translation with the pool base left out.
translateOffset_no_base(a, offset, size) ==
    IF ~a.initialized_ \/ ~isValidRange(a, offset, size)
    THEN [ status |-> "InvalidArgument", local_addr |-> NULL ]
    ELSE [ status |-> "OK", local_addr |-> offset ]

\* README_ARENA.md:665-679; local_addr keeps the caller's nullptr on failure.
translateOffset(a, offset, size) ==
    IF ~a.initialized_ \/ ~isValidRange(a, offset, size)
    THEN [ status |-> "InvalidArgument", local_addr |-> NULL ]
    ELSE [ status |-> "OK", local_addr |-> Wrap(a.pool_base_ + offset) ]

\* README_ARENA.md:681-695
getOffset(a, addr) ==
    IF ~a.initialized_ \/ addr = NULL
    THEN SIZE_MAX
    ELSE IF addr < a.pool_base_ \/ addr >= a.pool_base_ + a.pool_size_
    THEN SIZE_MAX
    ELSE addr - a.pool_base_

\* translateOffset, and getOffset of the address it wrote.
LifeTranslate(i, offset, size) ==
    /\ LifeStep(i)
    /\ arenas' = [ arenas EXCEPT ![i] = Constructed(@) ]
    /\ LET tr == translateOffset(arenas[i], offset, size)
       IN  life_ret' = [ op |-> "translateOffset", arena |-> i, offset |-> offset,
                         size |-> size, status |-> tr.status,
                         local_addr |-> tr.local_addr,
                         back |-> getOffset(arenas[i], tr.local_addr),
                         why |-> "translate" ]
    /\ UNCHANGED << regions, region_mem, life_allocs, life_written, life_unlinked >>

\* README_ARENA.md:697-712
LifeReset(i) ==
    /\ LifeStep(i)
    /\ UNCHANGED << regions, region_mem, life_allocs, life_written, life_unlinked >>
    /\ LET a == Constructed(arenas[i])
       IN  IF ~a.initialized_
           THEN /\ arenas' = [ arenas EXCEPT ![i] = a ]
                /\ life_ret' = [ op |-> "reset", arena |-> i,
                                 status |-> "InvalidArgument", why |-> "argument" ]
           ELSE /\ arenas' = [ arenas EXCEPT ![i] = [ a EXCEPT !.alloc_cursor_ = 0 ] ]
                /\ life_ret' = [ op |-> "reset", arena |-> i, status |-> "OK",
                                 why |-> "ok" ]

\* The byte of a region that address addr names in the mapping of arena a.
CellOf(a, addr) == [ region |-> a.mapping, offset |-> addr - a.pool_base_ ]

\* What a load from addr through the mapping of arena a reads (0: never written).
ReadByte(a, addr) ==
    LET c == CellOf(a, addr)
        hits == { m \in region_mem : m.region = c.region /\ m.offset = c.offset }
    IN  IF hits = {} THEN 0 ELSE (CHOOSE m \in hits : TRUE).value

\* The holder of an allocation stores byte v at index k of it.
LifeWrite(i, alloc, k, v) ==
    /\ LifeStep(i)
    /\ alloc \in life_allocs /\ alloc.arena = i
    /\ arenas[i].initialized_
    /\ k < alloc.size
    /\ alloc.offset + k < arenas[i].pool_size_
    /\ LET c == CellOf(arenas[i], alloc.addr + k)
       IN  /\ region_mem' =
                 { m \in region_mem : ~(m.region = c.region /\ m.offset = c.offset) }
                 \cup { [ region |-> c.region, offset |-> c.offset, value |-> v ] }
           /\ life_written' =
                 { w \in life_written :
                     CellOf(arenas[w.alloc.arena], w.alloc.addr + w.k) # c }
                 \cup { [ alloc |-> alloc, k |-> k, value |-> v ] }
    /\ life_ret' = [ op |-> "write", arena |-> i, status |-> "OK", why |-> "ok" ]
    /\ UNCHANGED << arenas, regions, life_allocs, life_unlinked >>

\* ------------------------------------------------------ ShmTransportArena
\* The ShmTransportArena objects of one process, the ShmArena objects they
\* create, and the thread_local cache of relocateSharedMemoryAddress.
VARIABLES
    adapters,         \* adapter -> installed_, local_arena_, remote_arenas_
    heap,             \* the ShmArena objects, in the order of their construction
    shm_names,        \* the linked POSIX objects: name and size
    buffers,          \* the buffers published in the segment descriptors
    tl_arena_cache,   \* thread -> target_id -> arena (shm_transport_arena.cpp:365)
    ad_ret,           \* the last call that returned
    ad_steps          \* number of calls made

adapterVars == << adapters, heap, shm_names, buffers, tl_arena_cache, ad_ret,
                  ad_steps >>

NumAdapters == 2
AdapterMaxSteps == 5

\* The segment id of an adapter is its index.
AdapterIds == 1 .. NumAdapters
NoArena == 0

\* transports/shm/arena_pool_size_gb and arena_alignment, scaled to the word.
AdapterConfig == [ pool_size |-> 256, alignment |-> 64 ]
AdapterAllocSizes == { 64, 256 }
InstallOutcomes == { "ok", "initialize" }

\* allocations_ holds one entry for each address allocateLocalMemory has handed
\* out and freeLocalMemory has not taken back; freed is the history of the
\* entries freeLocalMemory has taken back.
NewAdapter ==
    [ installed_ |-> FALSE, installs |-> 0, local_arena_ |-> NoArena,
      remote_arenas_ |-> [ target_id \in AdapterIds |-> NoArena ],
      allocations_ |-> {}, freed |-> {} ]

AdapterInit ==
    /\ adapters = [ p \in AdapterIds |-> NewAdapter ]
    /\ heap = << >>
    /\ shm_names = {}
    /\ buffers = {}
    /\ tl_arena_cache = [ t \in Threads |-> [ target_id \in AdapterIds |-> NoArena ] ]
    /\ ad_ret = NoRet
    /\ ad_steps = 0

AdapterStep ==
    /\ ad_steps < AdapterMaxSteps
    /\ ad_steps' = ad_steps + 1

\* std::make_shared<ShmArena>() by adapter p: the object number Len(heap) + 1.
MadeArena(p) ==
    [ alive |-> TRUE, initialized_ |-> FALSE, is_owner_ |-> FALSE,
      shm_name_ |-> NoName, pool_base_ |-> NULL, pool_size_ |-> 0,
      alloc_cursor_ |-> 0, by |-> p, installs |-> adapters[p].installs ]

\* shm_transport_arena.cpp:126-178; a failed initialize unlinks what it made.
AdInstall(p, outcome) ==
    /\ AdapterStep
    /\ UNCHANGED << buffers, tl_arena_cache >>
    /\ IF adapters[p].installed_
       THEN /\ ad_ret' = [ op |-> "install", adapter |-> p, status |-> "InvalidArgument" ]
            /\ UNCHANGED << adapters, heap, shm_names >>
       ELSE LET h == Len(heap) + 1
                name == ArenaName(h)
                a == [ MadeArena(p) EXCEPT !.is_owner_ = TRUE, !.shm_name_ = name,
                                           !.pool_size_ = AdapterConfig.pool_size ]
            IN  IF outcome = "initialize"
                THEN /\ heap' = Append(heap, a)
                     /\ adapters' = [ adapters EXCEPT ![p].local_arena_ = h ]
                     /\ ad_ret' = [ op |-> "install", adapter |-> p,
                                    status |-> "InternalError" ]
                     /\ UNCHANGED shm_names
                ELSE /\ heap' = Append(heap, [ a EXCEPT !.pool_base_ = MapBase(h),
                                                       !.initialized_ = TRUE ])
                     /\ shm_names' = shm_names \cup
                                       { [ name |-> name, size |-> AdapterConfig.pool_size ] }
                     /\ adapters' = [ adapters EXCEPT ![p].local_arena_ = h,
                                                      ![p].installed_ = TRUE,
                                                      ![p].installs = @ + 1 ]
                     /\ ad_ret' = [ op |-> "install", adapter |-> p, status |-> "OK" ]

\* shm_transport_arena.cpp:180-205; local_arena_.reset() runs ~ShmArena.
AdUninstall(p) ==
    /\ AdapterStep
    /\ UNCHANGED << buffers, tl_arena_cache >>
    /\ ad_ret' = [ op |-> "uninstall", adapter |-> p, status |-> "OK" ]
    /\ IF ~adapters[p].installed_
       THEN UNCHANGED << adapters, heap, shm_names >>
       ELSE LET h == adapters[p].local_arena_
            IN  /\ adapters' = [ adapters EXCEPT
                                   ![p].remote_arenas_ =
                                       [ target_id \in AdapterIds |-> NoArena ],
                                   ![p].local_arena_ = NoArena,
                                   ![p].allocations_ = {},
                                   ![p].installed_ = FALSE ]
                /\ heap' = [ heap EXCEPT ![h] = [ @ EXCEPT !.alive = FALSE,
                                                           !.initialized_ = FALSE,
                                                           !.pool_base_ = NULL ] ]
                /\ shm_names' = { r \in shm_names : r.name # heap[h].shm_name_ }

\* shm_transport_arena.cpp:309-344, with the buffer registered under the
\* published name and offset and its own length.
AdAllocateLocalMemory(p, size) ==
    /\ AdapterStep
    /\ UNCHANGED << shm_names, tl_arena_cache >>
    /\ LET h == adapters[p].local_arena_
           fail == /\ ad_ret' = [ op |-> "allocateLocalMemory", adapter |-> p,
                                  status |-> "InvalidArgument" ]
                   /\ UNCHANGED << adapters, heap, buffers >>
       IN  IF h = NoArena
           THEN fail
           ELSE LET a == heap[h]
                    aligned_size == alignUp(size, AdapterConfig.alignment)
                    offset == a.alloc_cursor_
                    end == Wrap(offset + aligned_size)
                IN  IF ~a.initialized_ \/ size = 0
                    THEN fail
                    ELSE IF end > a.pool_size_
                    THEN /\ ad_ret' = [ op |-> "allocateLocalMemory", adapter |-> p,
                                        status |-> "InternalError" ]
                         /\ UNCHANGED << adapters, heap, buffers >>
                    ELSE LET alloc == [ addr |-> Wrap(a.pool_base_ + offset),
                                        offset |-> offset, size |-> aligned_size,
                                        arena |-> h ]
                         IN  /\ heap' = [ heap EXCEPT ![h].alloc_cursor_ = end ]
                             /\ buffers' = buffers \cup
                                   { [ segment |-> p, shm_path |-> a.shm_name_,
                                       shm_offset |-> offset, length |-> size ] }
                             /\ adapters' = [ adapters EXCEPT ![p].allocations_ =
                                   { e \in @ : e.addr # alloc.addr } \cup { alloc } ]
                             /\ ad_ret' = [ op |-> "allocateLocalMemory", adapter |-> p,
                                            status |-> "OK", alloc |-> alloc ]

\* README_ARENA.md:655-663: deallocate does nothing to the arena.
deallocate(arena, alloc) == arena

\* shm_transport_arena.cpp:346-359
AdFreeLocalMemory(p, addr) ==
    /\ AdapterStep
    /\ UNCHANGED << shm_names, buffers, tl_arena_cache >>
    /\ LET found == { e \in adapters[p].allocations_ : e.addr = addr }
       IN  IF found = {}
           THEN /\ ad_ret' = [ op |-> "freeLocalMemory", adapter |-> p,
                               status |-> "InvalidArgument" ]
                /\ UNCHANGED << adapters, heap >>
           ELSE LET it == CHOOSE e \in found : TRUE
                IN  /\ heap' = [ heap EXCEPT ![it.arena] = deallocate(@, it) ]
                    /\ adapters' = [ adapters EXCEPT
                                       ![p].allocations_ = @ \ { it },
                                       ![p].freed = @ \cup { it } ]
                    /\ ad_ret' = [ op |-> "freeLocalMemory", adapter |-> p,
                                   status |-> "OK", alloc |-> it ]

\* shm_transport_arena.cpp:402: the expected_size handed to attach.
attach_size(buffer) == buffer.length

\* shm_transport_arena.cpp:361-433 on thread t of adapter p, for a target in
\* segment buffer.segment whose descriptor lookup (390-398) returns buffer.
AdRelocate(p, t, buffer, dest_addr, length) ==
    /\ AdapterStep
    /\ adapters[p].installed_
    /\ UNCHANGED << shm_names, buffers >>
    /\ LET target_id == buffer.segment
           cached == tl_arena_cache[t][target_id]
           fast == translateOffset(heap[cached], dest_addr, length)
           known == adapters[p].remote_arenas_[target_id]
           h == Len(heap) + 1
           found == { r \in shm_names : r.name = buffer.shm_path }
           attached == \E r \in found : size_matches(r.size, attach_size(buffer))
           made == [ MadeArena(p) EXCEPT !.shm_name_ = buffer.shm_path,
                                         !.pool_size_ = attach_size(buffer) ]
           return(status, addr, via) ==
               ad_ret' = [ op |-> "relocate", adapter |-> p, target |-> buffer,
                           offset |-> dest_addr, length |-> length,
                           status |-> status, dest_addr |-> addr, via |-> via ]
           \* 423-432: cache in the thread-local map, then translate
           finish(arena, via) ==
               LET tr == translateOffset(arena, dest_addr, length)
               IN  /\ tl_arena_cache' = [ tl_arena_cache EXCEPT ![t][target_id] = via ]
                   /\ IF tr.status = "OK"
                      THEN return("OK", tr.local_addr, via)
                      ELSE return(tr.status, dest_addr, via)
       IN  IF cached # NoArena /\ fast.status = "OK"
           THEN /\ return("OK", fast.local_addr, cached)
                /\ UNCHANGED << adapters, heap, tl_arena_cache >>
           ELSE IF known # NoArena
           THEN /\ finish(heap[known], known)
                /\ UNCHANGED << adapters, heap >>
           ELSE IF found = {}
           THEN \* shm_open fails; the new object is dropped
                /\ heap' = Append(heap, [ made EXCEPT !.alive = FALSE ])
                /\ return("InternalError", dest_addr, NoArena)
                /\ UNCHANGED << adapters, tl_arena_cache >>
           ELSE IF ~attached
           THEN \* "Arena size mismatch"; the new object is dropped
                /\ heap' = Append(heap, [ made EXCEPT !.alive = FALSE ])
                /\ return("InvalidArgument", dest_addr, NoArena)
                /\ UNCHANGED << adapters, tl_arena_cache >>
           ELSE LET arena == [ made EXCEPT !.pool_base_ = MapBase(h),
                                           !.initialized_ = TRUE ]
                IN  /\ heap' = Append(heap, arena)
                    /\ adapters' = [ adapters EXCEPT
                                       ![p].remote_arenas_[target_id] = h ]
                    /\ finish(arena, h)

\* ------------------------- relocateSharedMemoryAddress, statement by statement
\* The calls of several threads interleave at the cache lookup, the lock, the
\* map lookup, the attach and the cache update.
VARIABLES
    remote_arenas_mutex_,  \* adapter -> the thread holding its mutex, or NoThread
    rl_pc,                 \* per thread: position inside relocateSharedMemoryAddress
    rl_frame               \* per thread: arguments and locals of the running call

relocVars == << remote_arenas_mutex_, rl_pc, rl_frame >>

RelocInit ==
    /\ remote_arenas_mutex_ = [ p \in AdapterIds |-> NoThread ]
    /\ rl_pc = [ t \in Threads |-> "idle" ]
    /\ rl_frame = [ t \in Threads |-> IdleFrame ]

\* No relocateSharedMemoryAddress call is in progress.
RelocQuiescent == \A t \in Threads : rl_pc[t] = "idle"

\* The call of thread t returns.
RlReturn(t, status, addr, via) ==
    LET f == rl_frame[t]
    IN  /\ ad_ret' = [ op |-> "relocate", adapter |-> f.adapter, target |-> f.buffer,
                       offset |-> f.dest_addr, length |-> f.length,
                       status |-> status, dest_addr |-> addr, via |-> via ]
        /\ rl_pc' = [ rl_pc EXCEPT ![t] = "idle" ]
        /\ rl_frame' = [ rl_frame EXCEPT ![t] = IdleFrame ]

\* shm_transport_arena.cpp:364-377: the thread-local lookup; a hit whose
\* translateOffset succeeds returns, everything else goes on to the lock.
RlLookup(p, t, buffer, dest_addr, length) ==
    /\ AdapterStep
    /\ rl_pc[t] = "idle"
    /\ adapters[p].installed_
    /\ UNCHANGED << adapters, heap, shm_names, buffers, tl_arena_cache,
                    remote_arenas_mutex_ >>
    /\ LET cached == tl_arena_cache[t][buffer.segment]
           fast == translateOffset(heap[cached], dest_addr, length)
       IN  IF cached # NoArena /\ fast.status = "OK"
           THEN /\ ad_ret' = [ op |-> "relocate", adapter |-> p, target |-> buffer,
                               offset |-> dest_addr, length |-> length,
                               status |-> "OK", dest_addr |-> fast.local_addr,
                               via |-> cached ]
                /\ UNCHANGED << rl_pc, rl_frame >>
           ELSE /\ rl_pc' = [ rl_pc EXCEPT ![t] = "lock" ]
                /\ rl_frame' = [ rl_frame EXCEPT ![t] =
                                   [ op |-> "relocate", adapter |-> p,
                                     buffer |-> buffer, dest_addr |-> dest_addr,
                                     length |-> length, hit |-> cached # NoArena,
                                     known |-> NoArena ] ]
                /\ UNCHANGED ad_ret

\* The mutex taken whoever holds it.
rl_lock_unguarded(mutex) == TRUE

\* shm_transport_arena.cpp:380 (std::unique_lock on remote_arenas_mutex_)
rl_lock_available(mutex) == mutex = NoThread

\* shm_transport_arena.cpp:380
RlLock(t) ==
    /\ rl_pc[t] = "lock"
    /\ rl_lock_available(remote_arenas_mutex_[rl_frame[t].adapter])
    /\ remote_arenas_mutex_' =
          [ remote_arenas_mutex_ EXCEPT ![rl_frame[t].adapter] = t ]
    /\ rl_pc' = [ rl_pc EXCEPT ![t] = "find" ]
    /\ UNCHANGED << adapters, heap, shm_names, buffers, tl_arena_cache, ad_ret,
                    ad_steps, rl_frame >>

\* shm_transport_arena.cpp:382-385, 415-419: the lookup in remote_arenas_; an
\* entry found is copied and the lock released.
RlFind(t) ==
    /\ rl_pc[t] = "find"
    /\ UNCHANGED << adapters, heap, shm_names, buffers, tl_arena_cache, ad_ret,
                    ad_steps >>
    /\ LET f == rl_frame[t]
           known == adapters[f.adapter].remote_arenas_[f.buffer.segment]
       IN  IF known = NoArena
           THEN /\ rl_pc' = [ rl_pc EXCEPT ![t] = "attach" ]
                /\ UNCHANGED << rl_frame, remote_arenas_mutex_ >>
           ELSE /\ rl_pc' = [ rl_pc EXCEPT ![t] = "cache" ]
                /\ rl_frame' = [ rl_frame EXCEPT ![t].known = known ]
                /\ remote_arenas_mutex_' =
                      [ remote_arenas_mutex_ EXCEPT ![f.adapter] = NoThread ]

\* shm_transport_arena.cpp:386-419: the descriptor's buffer that contains the
\* request, the attach, the insertion into remote_arenas_ and the unlock
\* (every return releases the lock).
RlAttach(t) ==
    /\ rl_pc[t] = "attach"
    /\ UNCHANGED << shm_names, buffers, tl_arena_cache, ad_steps >>
    /\ LET f == rl_frame[t]
           p == f.adapter
           b == f.buffer
           inside == /\ f.dest_addr >= b.shm_offset
                     /\ f.dest_addr + f.length <= b.shm_offset + b.length
           h == Len(heap) + 1
           found == { r \in shm_names : r.name = b.shm_path }
           attached == \E r \in found : size_matches(r.size, attach_size(b))
           made == [ MadeArena(p) EXCEPT !.shm_name_ = b.shm_path,
                                         !.pool_size_ = attach_size(b) ]
       IN  /\ remote_arenas_mutex_' =
                 [ remote_arenas_mutex_ EXCEPT ![p] = NoThread ]
           /\ IF ~inside
              THEN /\ RlReturn(t, "InvalidArgument", f.dest_addr, NoArena)
                   /\ UNCHANGED << adapters, heap >>
              ELSE IF found = {} \/ ~attached
              THEN \* shm_open fails or "Arena size mismatch"; the object is dropped
                   /\ heap' = Append(heap, [ made EXCEPT !.alive = FALSE ])
                   /\ RlReturn(t, IF found = {} THEN "InternalError"
                                  ELSE "InvalidArgument", f.dest_addr, NoArena)
                   /\ UNCHANGED adapters
              ELSE /\ heap' = Append(heap, [ made EXCEPT !.pool_base_ = MapBase(h),
                                                         !.initialized_ = TRUE ])
                   /\ adapters' = [ adapters EXCEPT
                                      ![p].remote_arenas_[b.segment] = h ]
                   /\ rl_pc' = [ rl_pc EXCEPT ![t] = "cache" ]
                   /\ rl_frame' = [ rl_frame EXCEPT ![t].known = h ]
                   /\ UNCHANGED ad_ret

\* shm_transport_arena.cpp:421-432: the thread-local cache entry, then the
\* translation.
RlCache(t) ==
    /\ rl_pc[t] = "cache"
    /\ UNCHANGED << adapters, heap, shm_names, buffers, ad_steps,
                    remote_arenas_mutex_ >>
    /\ LET f == rl_frame[t]
           tr == translateOffset(heap[f.known], f.dest_addr, f.length)
       IN  /\ tl_arena_cache' =
                 [ tl_arena_cache EXCEPT ![t][f.buffer.segment] = f.known ]
           /\ IF tr.status = "OK"
              THEN RlReturn(t, "OK", tr.local_addr, f.known)
              ELSE RlReturn(t, tr.status, f.dest_addr, f.known)

\* ---------------------------------------------------- ShmArenaPoolManager
\* The process-wide registry, the ShmArena objects it creates, and the
\* shared_ptr handles its callers hold.
VARIABLES
    pm_arenas_,       \* ShmArenaPoolManager::arenas_ : set of [name, arena]
    pm_mutex_,        \* ShmArenaPoolManager::mutex_ : the thread holding it
    pm_heap,          \* the ShmArena objects, in the order of their construction
    pm_names,         \* the linked POSIX objects: name and size
    pm_held,          \* arena -> number of handles the callers hold
    pm_pc,            \* thread -> position in its call
    pm_frame,         \* thread -> arguments and locals of its call
    pm_ret,           \* the last call that returned
    pm_log,           \* what getOrCreateArena created and returned; other calls
    pm_calls          \* number of calls made

pmVars == << pm_arenas_, pm_mutex_, pm_heap, pm_names, pm_held, pm_pc, pm_frame,
             pm_ret, pm_log, pm_calls >>

PmMaxCalls == 4

\* Names the callers choose for getOrCreateArena.
PmKeys == { << "pool", 0 >>, << "pool", 1 >> }
PmConfig == [ pool_size |-> 256, alignment |-> 64 ]
PmAttachSizes == { 256, 64 }
PmInitializeOutcomes == { "ok", "shm_open" }

PmInit ==
    /\ pm_arenas_ = {}
    /\ pm_mutex_ = NoThread
    /\ pm_heap = << >>
    /\ pm_names = {}
    /\ pm_held = << >>
    /\ pm_pc = [ t \in Threads |-> "idle" ]
    /\ pm_frame = [ t \in Threads |-> IdleFrame ]
    /\ pm_ret = NoRet
    /\ pm_log = [ created |-> {}, returned |-> {}, others |-> 0 ]
    /\ pm_calls = 0

\* The mutex is taken without waiting for its holder.
pm_lock_unguarded(mutex) == TRUE

\* README_ARENA.md:755, 780, 803: std::lock_guard<std::mutex> lock(mutex_)
pm_lock_available(mutex) == mutex = NoThread

\* arenas_.find(name), as a set of at most one arena.
PmFind(name) == { e.arena : e \in { x \in pm_arenas_ : x.name = name } }

\* arenas_[name] = arena
PmInsert(registry, name, arena) ==
    { e \in registry : e.name # name } \cup { [ name |-> name, arena |-> arena ] }

\* Only the registry's reference is counted.
use_count_registry_only(registry, held, locals, h) ==
    Cardinality({ e \in registry : e.arena = h })

\* shm_arena.h:300: the owners of a std::shared_ptr<ShmArena>: registry
\* entries, handles of callers and new_arena locals of calls in progress.
use_count(registry, held, locals, h) ==
    Cardinality({ e \in registry : e.arena = h }) + held[h]
      + Cardinality({ t \in Threads : locals[t] = h })

\* The new_arena local of each thread (0: none).
PmLocals(frames) ==
    [ t \in Threads |-> IF frames[t].op = "none" THEN 0 ELSE frames[t].new_arena ]

\* README_ARENA.md:454-471 run on every object nobody owns any more.
PmCollect(objects, registry, held, locals) ==
    [ h \in DOMAIN objects |->
        IF objects[h].alive /\ use_count(registry, held, locals, h) = 0
        THEN [ objects[h] EXCEPT !.alive = FALSE, !.initialized_ = FALSE,
                                 !.pool_base_ = NULL ]
        ELSE objects[h] ]

\* The names that the objects torn down between before and after unlinked.
PmUnlinked(before, after) ==
    { before[h].shm_name_ : h \in { x \in DOMAIN before :
        before[x].alive /\ ~after[x].alive /\ before[x].is_owner_ } }

PmMadeArena ==
    [ alive |-> TRUE, initialized_ |-> FALSE, is_owner_ |-> FALSE,
      shm_name_ |-> NoName, pool_base_ |-> NULL, pool_size_ |-> 0,
      alloc_cursor_ |-> 0 ]

\* The call of thread t returns: the lock_guard and the locals go away, the
\* caller keeps the handle, and objects nobody owns are destroyed.
PmReturn(t, op, name, status, arena, objects, registry) ==
    LET expected_size == IF pm_pc[t] = "idle" THEN 0 ELSE pm_frame[t].expected_size
        frames == [ pm_frame EXCEPT ![t] = IdleFrame ]
        held == IF arena = 0 THEN pm_held
                ELSE [ h \in DOMAIN objects |->
                         (IF h \in DOMAIN pm_held THEN pm_held[h] ELSE 0)
                           + (IF h = arena THEN 1 ELSE 0) ]
        held_all == [ h \in DOMAIN objects |->
                        IF h \in DOMAIN held THEN held[h] ELSE 0 ]
        after == PmCollect(objects, registry, held_all, PmLocals(frames))
    IN  /\ pm_frame' = frames
        /\ pm_pc' = [ pm_pc EXCEPT ![t] = "idle" ]
        /\ pm_mutex_' = NoThread
        /\ pm_held' = held_all
        /\ pm_heap' = after
        /\ pm_arenas_' = registry
        /\ pm_names' = { r \in pm_names : r.name \notin PmUnlinked(objects, after) }
        /\ pm_ret' = [ op |-> op, name |-> name, status |-> status, arena |-> arena,
                       expected_size |-> expected_size ]

\* README_ARENA.md:759-761, 784-786: the entry found is handed out.
PmReturnFound(t, op, name, expected_size, h) ==
    /\ pm_held' = [ pm_held EXCEPT ![h] = @ + 1 ]
    /\ pm_ret' = [ op |-> op, name |-> name, status |-> "OK", arena |-> h,
                   expected_size |-> expected_size ]
    /\ UNCHANGED << pm_arenas_, pm_mutex_, pm_heap, pm_names, pm_pc, pm_frame >>

PmCallStart(t) ==
    /\ pm_pc[t] = "idle"
    /\ pm_calls < PmMaxCalls
    /\ pm_calls' = pm_calls + 1

\* README_ARENA.md:752-762: lock, find, return the entry found.
PmGetOrCreateArena(t, name) ==
    /\ PmCallStart(t)
    /\ pm_lock_available(pm_mutex_)
    /\ IF PmFind(name) # {}
       THEN LET h == CHOOSE x \in PmFind(name) : TRUE
            IN  /\ PmReturnFound(t, "getOrCreateArena", name, 0, h)
                /\ pm_log' = [ pm_log EXCEPT
                                 !.returned = @ \cup { [ name |-> name, arena |-> h ] } ]
       ELSE /\ pm_mutex_' = t
            /\ pm_pc' = [ pm_pc EXCEPT ![t] = "create" ]
            /\ pm_frame' = [ pm_frame EXCEPT ![t] =
                               [ op |-> "getOrCreateArena", name |-> name,
                                 expected_size |-> 0, new_arena |-> 0 ] ]
            /\ UNCHANGED << pm_arenas_, pm_heap, pm_names, pm_held, pm_ret, pm_log >>

\* README_ARENA.md:764-769: make_shared, initialize, return its error.
PmCreate(t, outcome) ==
    /\ pm_pc[t] = "create"
    /\ UNCHANGED pm_calls
    /\ LET h == Len(pm_heap) + 1
           f == pm_frame[t]
           a == [ PmMadeArena EXCEPT !.shm_name_ = ArenaName(h),
                                     !.pool_size_ = PmConfig.pool_size ]
       IN  IF outcome = "shm_open"
           THEN /\ PmReturn(t, f.op, f.name, "InternalError", 0,
                            Append(pm_heap, a), pm_arenas_)
                /\ UNCHANGED pm_log
           ELSE /\ pm_heap' = Append(pm_heap,
                                [ a EXCEPT !.is_owner_ = TRUE, !.initialized_ = TRUE,
                                           !.pool_base_ = MapBase(h) ])
                /\ pm_names' = pm_names \cup
                                 { [ name |-> ArenaName(h), size |-> PmConfig.pool_size ] }
                /\ pm_held' = [ x \in 1 .. h |-> IF x = h THEN 0 ELSE pm_held[x] ]
                /\ pm_frame' = [ pm_frame EXCEPT ![t].new_arena = h ]
                /\ pm_pc' = [ pm_pc EXCEPT ![t] = "insert" ]
                /\ pm_log' = [ pm_log EXCEPT
                                 !.created = @ \cup { [ name |-> f.name, arena |-> h ] } ]
                /\ UNCHANGED << pm_arenas_, pm_mutex_, pm_ret >>

\* README_ARENA.md:771-774, 796-799: arenas_[name] = new_arena; return it.
PmStore(t) ==
    /\ pm_pc[t] = "insert"
    /\ UNCHANGED pm_calls
    /\ LET f == pm_frame[t]
       IN  /\ PmReturn(t, f.op, f.name, "OK", f.new_arena, pm_heap,
                       PmInsert(pm_arenas_, f.name, f.new_arena))
           /\ pm_log' = IF f.op = "getOrCreateArena"
                        THEN [ pm_log EXCEPT !.returned =
                                 @ \cup { [ name |-> f.name, arena |-> f.new_arena ] } ]
                        ELSE pm_log

\* README_ARENA.md:777-787: lock, find, return the entry found.
PmAttachArena(t, name, expected_size) ==
    /\ PmCallStart(t)
    /\ pm_lock_available(pm_mutex_)
    /\ pm_log' = [ pm_log EXCEPT !.others = 1 ]
    /\ IF PmFind(name) # {}
       THEN LET h == CHOOSE x \in PmFind(name) : TRUE
            IN  PmReturnFound(t, "attachArena", name, expected_size, h)
       ELSE /\ pm_mutex_' = t
            /\ pm_pc' = [ pm_pc EXCEPT ![t] = "attach" ]
            /\ pm_frame' = [ pm_frame EXCEPT ![t] =
                               [ op |-> "attachArena", name |-> name,
                                 expected_size |-> expected_size, new_arena |-> 0 ] ]
            /\ UNCHANGED << pm_arenas_, pm_heap, pm_names, pm_held, pm_ret >>

\* README_ARENA.md:789-794: make_shared, attach, return its error.
PmAttach(t) ==
    /\ pm_pc[t] = "attach"
    /\ UNCHANGED << pm_calls, pm_log >>
    /\ LET h == Len(pm_heap) + 1
           f == pm_frame[t]
           a == [ PmMadeArena EXCEPT !.shm_name_ = f.name,
                                     !.pool_size_ = f.expected_size ]
           found == { r \in pm_names : r.name = f.name }
       IN  IF found = {}
           THEN PmReturn(t, f.op, f.name, "InternalError", 0,
                         Append(pm_heap, a), pm_arenas_)
           ELSE IF \E r \in found : ~size_matches(r.size, f.expected_size)
           THEN PmReturn(t, f.op, f.name, "InvalidArgument", 0,
                         Append(pm_heap, a), pm_arenas_)
           ELSE /\ pm_heap' = Append(pm_heap,
                                [ a EXCEPT !.initialized_ = TRUE,
                                           !.pool_base_ = MapBase(h) ])
                /\ pm_held' = [ x \in 1 .. h |-> IF x = h THEN 0 ELSE pm_held[x] ]
                /\ pm_frame' = [ pm_frame EXCEPT ![t].new_arena = h ]
                /\ pm_pc' = [ pm_pc EXCEPT ![t] = "insert" ]
                /\ UNCHANGED << pm_arenas_, pm_mutex_, pm_names, pm_ret >>

\* README_ARENA.md:802-812
PmRemoveArena(t, name) ==
    /\ PmCallStart(t)
    /\ pm_lock_available(pm_mutex_)
    /\ pm_log' = [ pm_log EXCEPT !.others = 1 ]
    /\ IF PmFind(name) = {}
       THEN PmReturn(t, "removeArena", name, "InternalError", 0, pm_heap, pm_arenas_)
       ELSE PmReturn(t, "removeArena", name, "OK", 0, pm_heap,
                     { e \in pm_arenas_ : e.name # name })

\* A caller lets go of a handle it was given.
PmRelease(h) ==
    /\ h \in DOMAIN pm_held /\ pm_held[h] > 0
    /\ LET held == [ pm_held EXCEPT ![h] = @ - 1 ]
           after == PmCollect(pm_heap, pm_arenas_, held, PmLocals(pm_frame))
       IN  /\ pm_held' = held
           /\ pm_heap' = after
           /\ pm_names' = { r \in pm_names : r.name \notin PmUnlinked(pm_heap, after) }
    /\ pm_ret' = [ op |-> "release", name |-> NoName, status |-> "OK", arena |-> h,
                   expected_size |-> 0 ]
    /\ UNCHANGED << pm_arenas_, pm_mutex_, pm_pc, pm_frame, pm_log, pm_calls >>

\* A caller uses a handle it holds: allocate(64), then translateOffset of what
\* it was given (README_ARENA.md:604-653, 665-679; one call running alone).
PmUse(h) ==
    /\ h \in DOMAIN pm_held /\ pm_held[h] > 0
    /\ pm_calls < PmMaxCalls
    /\ pm_calls' = pm_calls + 1
    /\ LET a == pm_heap[h]
           aligned_size == alignUp(64, PmConfig.alignment)
           offset == a.alloc_cursor_
           end == Wrap(offset + aligned_size)
       IN  IF ~a.initialized_
           THEN /\ pm_ret' = [ op |-> "use", name |-> NoName,
                               status |-> "InvalidArgument", arena |-> h,
                               expected_size |-> 0 ]
                /\ UNCHANGED pm_heap
           ELSE IF end > a.pool_size_
           THEN /\ pm_ret' = [ op |-> "use", name |-> NoName,
                               status |-> "InternalError", arena |-> h,
                               expected_size |-> 0 ]
                /\ UNCHANGED pm_heap
           ELSE /\ pm_heap' = [ pm_heap EXCEPT ![h].alloc_cursor_ = end ]
                /\ pm_ret' = [ op |-> "use", name |-> NoName,
                               status |-> translateOffset(a, offset, aligned_size).status,
                               arena |-> h, expected_size |-> 0 ]
    /\ UNCHANGED << pm_arenas_, pm_mutex_, pm_names, pm_held, pm_pc, pm_frame, pm_log >>

\* --------------------------------------------------------- specification
vars == << mmapVars, shmVars, initVars, lifeVars, adapterVars, pmVars, relocVars >>

\* What the actions of one component leave alone.
mmapRest == << shmVars, initVars, lifeVars, adapterVars, pmVars, relocVars >>
shmRest == << mmapVars, initVars, lifeVars, adapterVars, pmVars, relocVars >>
shmInitRest == << mmapVars, lifeVars, adapterVars, pmVars, relocVars >>
lifeRest == << mmapVars, shmVars, initVars, adapterVars, pmVars, relocVars >>
adapterRest == << mmapVars, shmVars, initVars, lifeVars, pmVars, relocVars >>
pmRest == << mmapVars, shmVars, initVars, lifeVars, adapterVars, relocVars >>
relocRest == << mmapVars, shmVars, initVars, lifeVars, pmVars >>

Init ==
    /\ MmapInit /\ ShmInit /\ ShmInitLogInit /\ LifeInit /\ AdapterInit /\ PmInit
    /\ RelocInit

\* MmapArena: threads calling initialize and allocate on one arena.
Next ==
    \/ \E t \in Threads, a \in InitArgs :
          InitEnter(t, a[1], a[2]) /\ UNCHANGED mmapRest
    \/ \E t \in Threads : InitStoreAlignment(t) /\ UNCHANGED mmapRest
    \/ \E t \in Threads : InitStorePoolSize(t) /\ UNCHANGED mmapRest
    \/ \E t \in Threads : InitPublish(t) /\ UNCHANGED mmapRest
    \/ \E t \in Threads, a \in AllocArgs :
          AllocBegin(t, a[1], a[2]) /\ UNCHANGED mmapRest
    \/ \E t \in Threads : AllocLoadCursor(t) /\ UNCHANGED mmapRest
    \/ \E t \in Threads : AllocTry(t) /\ UNCHANGED mmapRest
    \/ \E t \in Threads : AllocCount(t) /\ UNCHANGED mmapRest
    \/ \E t \in Threads : AllocLoadPeak(t) /\ UNCHANGED mmapRest
    \/ \E t \in Threads : AllocPeak(t) /\ UNCHANGED mmapRest

Spec == Init /\ [][Next]_vars

\* ShmArena: threads calling initialize, allocate and reset on one arena.
ShmNext ==
    \/ \E t \in Threads, c \in ShmConfigs, o \in ShmSyscallOutcomes :
          ShmInitialize(t, c, o) /\ UNCHANGED shmRest
    \/ \E t \in Threads, sz \in ShmAllocSizes :
          ShmAllocFetchAdd(t, sz) /\ UNCHANGED shmRest
    \/ \E t \in Threads : ShmAllocUndo(t) /\ UNCHANGED shmRest
    \/ \E t \in Threads : ShmAllocCountFailure(t) /\ UNCHANGED shmRest
    \/ \E t \in Threads : ShmAllocCount(t) /\ UNCHANGED shmRest
    \/ \E t \in Threads : ShmAllocLoadPeak(t) /\ UNCHANGED shmRest
    \/ \E t \in Threads : ShmAllocPeak(t) /\ UNCHANGED shmRest
    \/ \E t \in Threads : ShmReset(t) /\ UNCHANGED shmRest

ShmSpec == Init /\ [][ShmNext]_vars

\* ShmArena: threads calling initialize on one arena, statement by statement.
ShmInitNext ==
    \/ \E t \in Threads, c \in ValidShmConfigs :
          ShmInitCheck(t, c) /\ UNCHANGED shmInitRest
    \/ \E t \in Threads : ShmInitStoreConfig(t) /\ UNCHANGED shmInitRest
    \/ \E t \in Threads : ShmInitStorePoolSize(t) /\ UNCHANGED shmInitRest
    \/ \E t \in Threads : ShmInitStoreName(t) /\ UNCHANGED shmInitRest
    \/ \E t \in Threads : ShmInitOpen(t) /\ UNCHANGED shmInitRest
    \/ \E t \in Threads : ShmInitCheckFd(t) /\ UNCHANGED shmInitRest
    \/ \E t \in Threads : ShmInitOwner(t) /\ UNCHANGED shmInitRest
    \/ \E t \in Threads : ShmInitFtruncate(t) /\ UNCHANGED shmInitRest
    \/ \E t \in Threads : ShmInitMmap(t) /\ UNCHANGED shmInitRest
    \/ \E t \in Threads : ShmInitCounters(t) /\ UNCHANGED shmInitRest
    \/ \E t \in Threads : ShmInitDone(t) /\ UNCHANGED shmInitRest

ShmInitSpec == Init /\ [][ShmInitNext]_vars

\* ShmArena objects: initialize, attach, destruction, allocate, translateOffset
\* and stores into allocations, one call at a time.
LifeNext ==
    \/ \E i \in ArenaIds, c \in InitializeCases :
          LifeInitialize(i, c[1], c[2]) /\ UNCHANGED lifeRest
    \/ \E i \in ArenaIds, name \in KnownNames, c \in AttachCases :
          LifeAttach(i, name, c[1], c[2]) /\ UNCHANGED lifeRest
    \/ \E i \in ArenaIds : LifeDestroy(i) /\ UNCHANGED lifeRest
    \/ \E i \in ArenaIds, sz \in LifeAllocSizes :
          LifeAllocate(i, sz) /\ UNCHANGED lifeRest
    \/ \E i \in ArenaIds, al \in life_allocs, v \in Bytes :
          \E k \in { 0, al.size - 1 } : LifeWrite(i, al, k, v) /\ UNCHANGED lifeRest

LifeSpec == Init /\ [][LifeNext]_vars

\* ShmArena objects: translateOffset and getOffset on arenas that were
\* initialized, attached or neither.
TranslateNext ==
    \/ \E i \in ArenaIds, c \in InitializeCases :
          LifeInitialize(i, c[1], c[2]) /\ UNCHANGED lifeRest
    \/ \E i \in ArenaIds, name \in KnownNames, c \in AttachCases :
          LifeAttach(i, name, c[1], c[2]) /\ UNCHANGED lifeRest
    \/ \E i \in ArenaIds, x \in TranslateArgs :
          LifeTranslate(i, x[1], x[2]) /\ UNCHANGED lifeRest

TranslateSpec == Init /\ [][TranslateNext]_vars

\* The ranges asked of relocateSharedMemoryAddress for a published buffer:
\* the buffer itself, and one byte more than it holds.
RelocateRanges(b) == { << b.shm_offset, b.length >>, << b.shm_offset, b.length + 1 >> }

\* ShmTransportArena objects that are installed and allocate, and threads
\* that relocate targets in the segments of the other adapters concurrently.
RelocateNext ==
    \/ \E p \in AdapterIds :
          RelocQuiescent /\ AdInstall(p, "ok") /\ UNCHANGED << relocVars, relocRest >>
    \/ \E p \in AdapterIds, sz \in AdapterAllocSizes :
          /\ RelocQuiescent
          /\ AdAllocateLocalMemory(p, sz)
          /\ UNCHANGED << relocVars, relocRest >>
    \/ \E p \in AdapterIds, t \in Threads, b \in buffers :
          \E x \in RelocateRanges(b) :
            /\ p # b.segment
            /\ RlLookup(p, t, b, x[1], x[2])
            /\ UNCHANGED relocRest
    \/ \E t \in Threads : RlLock(t) /\ UNCHANGED relocRest
    \/ \E t \in Threads : RlFind(t) /\ UNCHANGED relocRest
    \/ \E t \in Threads : RlAttach(t) /\ UNCHANGED relocRest
    \/ \E t \in Threads : RlCache(t) /\ UNCHANGED relocRest

RelocateSpec == Init /\ [][RelocateNext]_vars

\* initialize(pool_size, alignment) of a pool of 1024 bytes.
LiveInitArgs == { << 1024, 0 >> }
\* allocate(size, alignment): requests that fit, one with its own alignment,
\* an empty one and one larger than the pool.
LiveAllocArgs == { << 300, 0 >>, << 600, 256 >> }

\* MmapArena: one initialize and threads calling allocate on the arena.
LiveNext ==
    \/ \E t \in Threads, a \in LiveInitArgs :
          InitEnter(t, a[1], a[2]) /\ UNCHANGED mmapRest
    \/ \E t \in Threads : InitStoreAlignment(t) /\ UNCHANGED mmapRest
    \/ \E t \in Threads : InitStorePoolSize(t) /\ UNCHANGED mmapRest
    \/ \E t \in Threads : InitPublish(t) /\ UNCHANGED mmapRest
    \/ \E t \in Threads, a \in LiveAllocArgs :
          AllocBegin(t, a[1], a[2]) /\ UNCHANGED mmapRest
    \/ \E t \in Threads : AllocLoadCursor(t) /\ UNCHANGED mmapRest
    \/ \E t \in Threads : AllocTry(t) /\ UNCHANGED mmapRest
    \/ \E t \in Threads : AllocCount(t) /\ UNCHANGED mmapRest
    \/ \E t \in Threads : AllocLoadPeak(t) /\ UNCHANGED mmapRest
    \/ \E t \in Threads : AllocPeak(t) /\ UNCHANGED mmapRest

\* One step of thread t inside allocate (mmap_arena.cpp:163-218).
AllocStep(t) ==
    /\ \/ AllocLoadCursor(t) \/ AllocTry(t) \/ AllocCount(t)
       \/ AllocLoadPeak(t) \/ AllocPeak(t)
    /\ UNCHANGED mmapRest

\* A turn of the cursor loop that leaves it: the compare-exchange succeeds,
\* or the request is refused (mmap_arena.cpp:167-192).
AllocTryLeavesLoop(t) ==
    /\ AllocTry(t)
    /\ pc'[t] # "load_cursor"
    /\ UNCHANGED mmapRest

\* A thread inside allocate is scheduled again (weak fairness of its steps),
\* and compare_exchange_weak does not fail for ever while the cursor holds
\* the expected value (strong fairness of the turn that leaves the loop). A
\* thread inside initialize is promised nothing.
LiveSpec ==
    /\ Init /\ [][LiveNext]_vars
    /\ \A t \in Threads : WF_vars(AllocStep(t)) /\ SF_vars(AllocTryLeavesLoop(t))

\* allocateLocalMemory(size): a cache line, the whole pool, and a size whose
\* round-up added to a cursor of 64 passes SIZE_MAX.
FreeAllocSizes == { 64, 256, SIZE_MAX - 100 }
\* freeLocalMemory(addr): the addresses adapter p handed out and has not
\* freed, and one it never handed out.
FreeAddrs(p) == { e.addr : e \in adapters[p].allocations_ } \cup { NULL }

\* Adapters that allocate from their local arena and free what they got.
FreeNext ==
    \/ \E p \in AdapterIds : AdInstall(p, "ok") /\ UNCHANGED adapterRest
    \/ \E p \in AdapterIds, sz \in FreeAllocSizes :
          AdAllocateLocalMemory(p, sz) /\ UNCHANGED adapterRest
    \/ \E p \in AdapterIds : \E addr \in FreeAddrs(p) :
          AdFreeLocalMemory(p, addr) /\ UNCHANGED adapterRest

FreeSpec == Init /\ [][FreeNext]_vars

\* initialize(pool_size, alignment) with the default and with a larger
\* alignment, and one rejected call.
RaceInitArgs == { << 1024, 0 >>, << 1024, 256 >>, << 0, 0 >> }
\* allocate(size, alignment), the last with a size whose round-up passes
\* SIZE_MAX.
RaceAllocArgs == { << 100, 0 >>, << 100, 128 >>, << 0, 0 >>, << SIZE_MAX, 0 >> }

\* MmapArena: threads calling allocate, load by load, while a thread runs
\* initialize store by store.
RaceNext ==
    \/ \E t \in Threads, a \in RaceInitArgs :
          InitEnter(t, a[1], a[2]) /\ UNCHANGED mmapRest
    \/ \E t \in Threads : InitStoreAlignment(t) /\ UNCHANGED mmapRest
    \/ \E t \in Threads : InitStorePoolSize(t) /\ UNCHANGED mmapRest
    \/ \E t \in Threads : InitPublish(t) /\ UNCHANGED mmapRest
    \/ \E t \in Threads, a \in RaceAllocArgs :
          AllocLoadBase(t, a[1], a[2]) /\ UNCHANGED mmapRest
    \/ \E t \in Threads : AllocLoadAlignment(t) /\ UNCHANGED mmapRest
    \/ \E t \in Threads : AllocLoadPoolSize(t) /\ UNCHANGED mmapRest
    \/ \E t \in Threads : AllocLoadCursor(t) /\ UNCHANGED mmapRest
    \/ \E t \in Threads : AllocTry(t) /\ UNCHANGED mmapRest
    \/ \E t \in Threads : AllocCount(t) /\ UNCHANGED mmapRest
    \/ \E t \in Threads : AllocLoadPeak(t) /\ UNCHANGED mmapRest
    \/ \E t \in Threads : AllocPeak(t) /\ UNCHANGED mmapRest

RaceSpec == Init /\ [][RaceNext]_vars

\* initialize(config) on a host with no huge pages to give, with and without
\* use_huge_pages, and on a host where every call succeeds.
HugePageCases ==
    { << [ pool_size |-> 256, alignment |-> 64, use_huge_pages |-> TRUE ], "hugetlb" >>,
      << [ pool_size |-> 256, alignment |-> 64, use_huge_pages |-> FALSE ], "hugetlb" >>,
      << [ pool_size |-> 256, alignment |-> 64, use_huge_pages |-> TRUE ], "ok" >> }

\* ShmArena objects initialized with and without huge pages, and the
\* allocate calls made on them.
HugePageNext ==
    \/ \E i \in ArenaIds, c \in HugePageCases :
          LifeInitialize(i, c[1], c[2]) /\ UNCHANGED lifeRest
    \/ \E i \in ArenaIds, sz \in LifeAllocSizes :
          LifeAllocate(i, sz) /\ UNCHANGED lifeRest

HugePageSpec == Init /\ [][HugePageNext]_vars

\* translateOffset(offset, size) on an arena of any state.
FailTranslateArgs == { << 0, 64 >>, << 0, 0 >> }

\* ShmArena objects whose initialize may fail at each of its system calls,
\* and the calls made on them afterwards.
FailNext ==
    \/ \E i \in ArenaIds, c \in InitializeCases :
          LifeInitialize(i, c[1], c[2]) /\ UNCHANGED lifeRest
    \/ \E i \in ArenaIds, sz \in LifeAllocSizes :
          LifeAllocate(i, sz) /\ UNCHANGED lifeRest
    \/ \E i \in ArenaIds, x \in FailTranslateArgs :
          LifeTranslate(i, x[1], x[2]) /\ UNCHANGED lifeRest
    \/ \E i \in ArenaIds : LifeReset(i) /\ UNCHANGED lifeRest

FailSpec == Init /\ [][FailNext]_vars

\* A run on one MmapArena or a run on ShmArena objects: the two classes share
\* no state, so a behaviour uses one of them and leaves the other as built.
MmapUntouched == calls = 0 /\ \A t \in Threads : pc[t] = "idle"
ShmUntouched == life_steps = 0

ArenaNext ==
    \/ \E t \in Threads, a \in InitArgs :
          ShmUntouched /\ InitEnter(t, a[1], a[2]) /\ UNCHANGED mmapRest
    \/ \E t \in Threads : InitStoreAlignment(t) /\ UNCHANGED mmapRest
    \/ \E t \in Threads : InitStorePoolSize(t) /\ UNCHANGED mmapRest
    \/ \E t \in Threads : InitPublish(t) /\ UNCHANGED mmapRest
    \/ \E t \in Threads, a \in AllocArgs :
          ShmUntouched /\ AllocBegin(t, a[1], a[2]) /\ UNCHANGED mmapRest
    \/ \E t \in Threads : AllocLoadCursor(t) /\ UNCHANGED mmapRest
    \/ \E t \in Threads : AllocTry(t) /\ UNCHANGED mmapRest
    \/ \E t \in Threads : AllocCount(t) /\ UNCHANGED mmapRest
    \/ \E t \in Threads : AllocLoadPeak(t) /\ UNCHANGED mmapRest
    \/ \E t \in Threads : AllocPeak(t) /\ UNCHANGED mmapRest
    \/ \E i \in ArenaIds, c \in InitializeCases :
          MmapUntouched /\ LifeInitialize(i, c[1], c[2]) /\ UNCHANGED lifeRest
    \/ \E i \in ArenaIds, name \in KnownNames, c \in AttachCases :
          MmapUntouched /\ LifeAttach(i, name, c[1], c[2]) /\ UNCHANGED lifeRest
    \/ \E i \in ArenaIds, sz \in LifeAllocSizes :
          MmapUntouched /\ LifeAllocate(i, sz) /\ UNCHANGED lifeRest

ArenaSpec == Init /\ [][ArenaNext]_vars

\* ShmTransportArena objects of one process under install, uninstall,
\* allocateLocalMemory and relocateSharedMemoryAddress; a relocate targets
\* the first or the last byte range of a published buffer.
AdapterNext ==
    \/ \E p \in AdapterIds, o \in InstallOutcomes :
          AdInstall(p, o) /\ UNCHANGED adapterRest
    \/ \E p \in AdapterIds : AdUninstall(p) /\ UNCHANGED adapterRest
    \/ \E p \in AdapterIds, sz \in AdapterAllocSizes :
          AdAllocateLocalMemory(p, sz) /\ UNCHANGED adapterRest
    \/ \E p \in AdapterIds, t \in Threads, b \in buffers :
          \E k \in { 0, b.length - 1 } :
            AdRelocate(p, t, b, b.shm_offset + k, b.length - k)
              /\ UNCHANGED adapterRest

AdapterSpec == Init /\ [][AdapterNext]_vars

\* The names given to attachArena: the callers' names and the names of the
\* POSIX objects created so far.
PmAttachNames == PmKeys \cup { pm_heap[h].shm_name_ : h \in DOMAIN pm_heap }

\* ShmArenaPoolManager under concurrent calls, and the callers' handles.
PoolNext ==
    \/ \E t \in Threads, name \in PmKeys :
          PmGetOrCreateArena(t, name) /\ UNCHANGED pmRest
    \/ \E t \in Threads, o \in PmInitializeOutcomes :
          PmCreate(t, o) /\ UNCHANGED pmRest
    \/ \E t \in Threads : PmStore(t) /\ UNCHANGED pmRest
    \/ \E t \in Threads, name \in PmAttachNames, sz \in PmAttachSizes :
          PmAttachArena(t, name, sz) /\ UNCHANGED pmRest
    \/ \E t \in Threads : PmAttach(t) /\ UNCHANGED pmRest
    \/ \E t \in Threads, name \in PmAttachNames :
          PmRemoveArena(t, name) /\ UNCHANGED pmRest
    \/ \E h \in DOMAIN pm_heap : PmRelease(h) /\ UNCHANGED pmRest
    \/ \E h \in DOMAIN pm_heap : PmUse(h) /\ UNCHANGED pmRest

PoolSpec == Init /\ [][PoolNext]_vars

\* initialize(pool_size, alignment) with valid arguments: the default
\* alignment, an alignment of two huge pages, and a pool of two huge pages.
CapacityInitArgs == { << 1024, 0 >>, << 1024, 2 * HUGE_PAGE_SIZE >>,
                      << HUGE_PAGE_SIZE + 1, 128 >> }
\* allocate(size, alignment) for small blocks.
CapacityAllocArgs == { << 100, 0 >>, << 100, 128 >> }

\* No call on the MmapArena is in progress.
MmapQuiescent == \A t \in Threads : pc[t] = "idle"

\* One MmapArena whose calls run one after the other; besides small blocks a
\* caller asks for exactly what getStats() says is left.
CapacityNext ==
    \/ \E t \in Threads, a \in CapacityInitArgs :
          MmapQuiescent /\ InitEnter(t, a[1], a[2]) /\ UNCHANGED mmapRest
    \/ \E t \in Threads : InitStoreAlignment(t) /\ UNCHANGED mmapRest
    \/ \E t \in Threads : InitStorePoolSize(t) /\ UNCHANGED mmapRest
    \/ \E t \in Threads : InitPublish(t) /\ UNCHANGED mmapRest
    \/ \E t \in Threads, a \in CapacityAllocArgs :
          MmapQuiescent /\ AllocBegin(t, a[1], a[2]) /\ UNCHANGED mmapRest
    \/ \E t \in Threads :
          /\ MmapQuiescent
          /\ AllocBegin(t, getStats.pool_size - getStats.allocated_bytes, 0)
          /\ UNCHANGED mmapRest
    \/ \E t \in Threads : AllocLoadCursor(t) /\ UNCHANGED mmapRest
    \/ \E t \in Threads : AllocTry(t) /\ UNCHANGED mmapRest
    \/ \E t \in Threads : AllocCount(t) /\ UNCHANGED mmapRest
    \/ \E t \in Threads : AllocLoadPeak(t) /\ UNCHANGED mmapRest
    \/ \E t \in Threads : AllocPeak(t) /\ UNCHANGED mmapRest

CapacitySpec == Init /\ [][CapacityNext]_vars

\* allocate(size, alignment): a small block, the whole pool, and a size whose
\* round-up passes SIZE_MAX.
CountAllocArgs == { << 100, 0 >>, << HUGE_PAGE_SIZE, 0 >>, << SIZE_MAX, 0 >> }
\* ShmArena::allocate(size): one cache line, more than the pool holds, and a
\* size whose round-up passes SIZE_MAX.
CountShmSizes == { 64, 300, SIZE_MAX }

\* No call has been made on the ShmArena.
ShmArenaUntouched == shm_calls = 0 /\ shm_ret = NoRet
\* No call on the ShmArena is in progress.
ShmQuiescent == \A t \in Threads : shm_pc[t] = "idle"

\* A process whose threads allocate from a MmapArena, or from a ShmArena,
\* without resetting it.
CountNext ==
    \/ \E t \in Threads, a \in CapacityInitArgs :
          ShmArenaUntouched /\ InitEnter(t, a[1], a[2]) /\ UNCHANGED mmapRest
    \/ \E t \in Threads : InitStoreAlignment(t) /\ UNCHANGED mmapRest
    \/ \E t \in Threads : InitStorePoolSize(t) /\ UNCHANGED mmapRest
    \/ \E t \in Threads : InitPublish(t) /\ UNCHANGED mmapRest
    \/ \E t \in Threads, a \in CountAllocArgs :
          ShmArenaUntouched /\ AllocBegin(t, a[1], a[2]) /\ UNCHANGED mmapRest
    \/ \E t \in Threads : AllocLoadCursor(t) /\ UNCHANGED mmapRest
    \/ \E t \in Threads : AllocTry(t) /\ UNCHANGED mmapRest
    \/ \E t \in Threads : AllocCount(t) /\ UNCHANGED mmapRest
    \/ \E t \in Threads : AllocLoadPeak(t) /\ UNCHANGED mmapRest
    \/ \E t \in Threads : AllocPeak(t) /\ UNCHANGED mmapRest
    \/ \E t \in Threads, c \in ShmConfigs :
          MmapUntouched /\ ShmInitialize(t, c, "ok") /\ UNCHANGED shmRest
    \/ \E t \in Threads, sz \in CountShmSizes :
          MmapUntouched /\ ShmAllocFetchAdd(t, sz) /\ UNCHANGED shmRest
    \/ \E t \in Threads : ShmAllocUndo(t) /\ UNCHANGED shmRest
    \/ \E t \in Threads : ShmAllocCountFailure(t) /\ UNCHANGED shmRest
    \/ \E t \in Threads : ShmAllocCount(t) /\ UNCHANGED shmRest
    \/ \E t \in Threads : ShmAllocLoadPeak(t) /\ UNCHANGED shmRest
    \/ \E t \in Threads : ShmAllocPeak(t) /\ UNCHANGED shmRest

CountSpec == Init /\ [][CountNext]_vars

\* MmapArena: owns() called by any thread at any moment of the arena's life.
OwnsNext ==
    \/ CapacityNext
    \/ \E t \in Threads, p \in OwnsProbes : OwnsCall(t, p) /\ UNCHANGED mmapRest

OwnsSpec == Init /\ [][OwnsNext]_vars

\* Config values for initialize: those of ShmConfigs and one whose alignment
\* is not a power of two.
ShmInitConfigs == ShmConfigs \cup { [ pool_size |-> 256, alignment |-> 100 ] }

\* ShmArena: initialize with any of these configurations, whatever the system
\* calls do, and the allocate calls of the threads.
ConfigNext ==
    \/ \E t \in Threads, c \in ShmInitConfigs, o \in ShmSyscallOutcomes :
          ShmInitialize(t, c, o) /\ UNCHANGED shmRest
    \/ \E t \in Threads, sz \in CountShmSizes :
          ShmAllocFetchAdd(t, sz) /\ UNCHANGED shmRest
    \/ \E t \in Threads : ShmAllocUndo(t) /\ UNCHANGED shmRest
    \/ \E t \in Threads : ShmAllocCountFailure(t) /\ UNCHANGED shmRest
    \/ \E t \in Threads : ShmAllocCount(t) /\ UNCHANGED shmRest
    \/ \E t \in Threads : ShmAllocLoadPeak(t) /\ UNCHANGED shmRest
    \/ \E t \in Threads : ShmAllocPeak(t) /\ UNCHANGED shmRest

ConfigSpec == Init /\ [][ConfigNext]_vars

\* ShmArena: threads allocate concurrently, reset() is called while no
\* allocate is in progress, and the allocate calls that follow a reset run one
\* after the other.
ResetNext ==
    \/ \E t \in Threads, c \in ShmConfigs :
          ShmInitialize(t, c, "ok") /\ UNCHANGED shmRest
    \/ \E t \in Threads, sz \in CountShmSizes :
          /\ shm_resets = 0 \/ ShmQuiescent
          /\ ShmAllocFetchAdd(t, sz)
          /\ UNCHANGED shmRest
    \/ \E t \in Threads : ShmAllocUndo(t) /\ UNCHANGED shmRest
    \/ \E t \in Threads : ShmAllocCountFailure(t) /\ UNCHANGED shmRest
    \/ \E t \in Threads : ShmAllocCount(t) /\ UNCHANGED shmRest
    \/ \E t \in Threads : ShmAllocLoadPeak(t) /\ UNCHANGED shmRest
    \/ \E t \in Threads : ShmAllocPeak(t) /\ UNCHANGED shmRest
    \/ \E t \in Threads : ShmQuiescent /\ ShmReset(t) /\ UNCHANGED shmRest

ResetSpec == Init /\ [][ResetNext]_vars

\* ======================================================== MmapArena claims
\* A call returns in this step: one that was in progress, or one that starts
\* and returns at once.
Returned ==
    \/ calls' = calls + 1 /\ pc' = pc
    \/ \E t \in Threads : pc[t] # "idle" /\ pc'[t] = "idle"

\* allocate returns null for lack of space or for arithmetic overflow.
AllocFailed ==
    /\ Returned
    /\ ret'.op = "allocate"
    /\ ret'.why \in { "size_overflow", "offset_overflow", "oom" }

Allocations == BagToSet(allocated)

Disjoint(a, b) == a.offset + a.size <= b.offset \/ b.offset + b.size <= a.offset

\* C1: the ranges [aligned_offset, aligned_offset + aligned_size) reserved by
\* any two allocate calls that returned non-null are disjoint, and no pointer
\* is handed out twice, whatever the interleaving of the calls.
C1_MmapAllocationsDisjoint ==
    \A a \in Allocations :
        /\ CopiesIn(a, allocated) = 1
        /\ \A b \in Allocations : a # b => Disjoint(a, b) /\ a.ptr # b.ptr

\* Two allocations have been handed out.
C1_Witness == BagCardinality(allocated) >= 2

\* C3: the cursor read through getStats().allocated_bytes never exceeds
\* pool_size, in every reachable state.
C3_MmapCursorWithinPool == getStats.allocated_bytes <= getStats.pool_size

\* An allocate has just failed on a pool that is used up to its last byte.
C3_Witness ==
    /\ ret.op = "allocate" /\ ret.why = "oom"
    /\ pool_size_ > 0 /\ alloc_cursor_ = pool_size_

\* C5: an allocate that fails for lack of space or overflow leaves cursor,
\* peak_allocated and num_allocations as they were and adds exactly one to
\* num_failed_allocs; only a call that goes on to succeed moves the cursor;
\* and a call fails for lack of space only when the request does not fit
\* after the cursor it read, so a request that fits is still served.
C5_MmapFailureLeavesState ==
    [][ /\ AllocFailed =>
              /\ ret'.ptr = NULL
              /\ alloc_cursor_' = alloc_cursor_
              /\ peak_allocated_' = peak_allocated_
              /\ num_allocations_' = num_allocations_
              /\ num_failed_allocs_' = num_failed_allocs_ + 1
              /\ ret'.why = "oom" =>
                    MathAlignUp(ret'.raw, ret'.effective_alignment)
                      + ret'.aligned_size > ret'.pool_size
        /\ alloc_cursor_' # alloc_cursor_ =>
              \E t \in Threads : pc[t] = "cas" /\ pc'[t] = "count"
        /\ \A t \in Threads :
              pc[t] \in { "count", "load_peak", "peak_cas" } /\ pc'[t] = "idle"
                 => ret'.ptr # NULL
        /\ num_failed_allocs_' # num_failed_allocs_ => AllocFailed
      ]_vars

\* An allocate succeeded after another one had failed.
C5_Witness ==
    /\ num_failed_allocs_ >= 1
    /\ ret.op = "allocate" /\ ret.why = "ok" /\ ret.ptr # NULL

\* C6: over the unbounded integers, whenever the rounded-up size or the
\* rounded-up cursor plus the rounded-up size exceeds SIZE_MAX or pool_size,
\* allocate returns null and the cursor keeps its value; a call that returns
\* a pointer has reserved exactly [round_up(raw), round_up(raw) + round_up(size)).
C6_MmapNoWrapAround ==
    [][ /\ ( /\ Returned
             /\ ret'.op = "allocate"
             /\ ret'.why \notin { "not_initialized", "zero_size" }
             /\ ret'.effective_alignment > 0
             /\ MathAlignUp(ret'.raw, ret'.effective_alignment)
                  + MathAlignUp(ret'.size, ret'.effective_alignment)
                    > ret'.pool_size )
            => ret'.ptr = NULL /\ alloc_cursor_' = alloc_cursor_
        /\ \A t \in Threads :
              pc[t] = "cas" /\ pc'[t] = "count" =>
                 LET f == frame'[t]
                     off == MathAlignUp(f.raw, f.effective_alignment)
                     len == MathAlignUp(f.size, f.effective_alignment)
                 IN  /\ off + len <= f.pool_size
                     /\ f.aligned_offset = off
                     /\ f.aligned_size = len
                     /\ alloc_cursor_' = off + len
      ]_vars

\* An allocate was refused because its end offset wrapped past SIZE_MAX.
C6_Witness ==
    /\ ret.op = "allocate" /\ ret.why = "oom" /\ ret.ptr = NULL
    /\ ret.next < ret.aligned_offset

\* C8: every pointer handed out is owned by the arena and its reserved range
\* lies inside the pool: offset + aligned_size <= pool_size, aligned_size >= size.
C8_MmapAllocationInsidePool ==
    \A a \in Allocations :
        /\ owns(a.ptr)
        /\ a.ptr = pool_base_ + a.offset
        /\ a.offset + a.size <= pool_size_
        /\ a.size >= a.requested

\* An allocation that ends exactly at the end of the pool has been handed out.
C8_Witness ==
    \E a \in Allocations : a.offset + a.size = pool_size_ /\ owns(a.ptr)

\* C9 (as claimed): every address handed out is a multiple of the effective
\* alignment max(arena alignment, per-call alignment), whatever base address
\* the pool was mapped at.
C9_MmapAddressAligned ==
    \A a \in Allocations : a.ptr % a.effective_alignment = 0

\* What the code does guarantee: the offset is a multiple of the effective alignment.
C9_OffsetAligned ==
    \A a \in Allocations : a.offset % a.effective_alignment = 0

ShmAllocations == BagToSet(shm_allocated)

Overlap(a, b) ==
    /\ a.size > 0 /\ b.size > 0
    /\ a.offset < b.offset + b.size
    /\ b.offset < a.offset + a.size

\* C2 (as claimed): with no reset, the ranges [offset, offset + size) of any
\* two successful ShmArena allocations are disjoint, also when other calls
\* failed because the pool was exhausted. Stated for the runs in which every
\* request is at most a page, so that no round-up or sum wraps around.
C2_ShmAllocationsDisjoint ==
    (shm_resets = 0 /\ ~shm_oversized_request) =>
        \A a \in ShmAllocations :
            /\ CopiesIn(a, shm_allocated) > 1 => a.size = 0
            /\ \A b \in ShmAllocations : a # b => ~Overlap(a, b)

\* C4 (as claimed): getStats().allocated_bytes is at most pool_size at every
\* moment another thread can observe.
C4_ShmCursorWithinPool ==
    ShmGetStats.allocated_bytes <= ShmGetStats.pool_size

\* C7 (as claimed): an allocate whose rounded-up size (over the unbounded
\* integers) does not fit after the cursor it reserved from never returns OK,
\* so no handle for such a request exists.
C7_ShmOverflowChecked ==
    \A a \in ShmAllocations :
        a.offset + MathAlignUp(a.requested, shm.config_.alignment) <= shm.pool_size_

\* C11 (as claimed): once every initialize called concurrently on one arena
\* with a valid configuration has returned, exactly one has returned OK, every
\* other one has failed as already initialized, and the arena is initialized
\* with the pool size of the call that returned OK.
C11_ShmExactlyOneInitializeWins ==
    ( /\ \A t \in Threads : shm_pc[t] = "idle"
      /\ shm_init_log.ok + shm_init_log.already + shm_init_log.other >= 1 )
    => /\ shm_init_log.ok = 1
       /\ shm_init_log.other = 0
       /\ shm.initialized_
       /\ shm.pool_size_ = shm_init_log.winner.pool_size

\* The step is a call of MmapArena::initialize: it returns at once or goes on
\* to store the fields.
MmapInitializeCalled ==
    /\ calls' = calls + 1
    /\ \/ pc' = pc /\ ret'.op = "initialize"
       \/ \E t \in Threads : pc[t] = "idle" /\ pc'[t] = "init_store_alignment"

\* The step is a call of ShmArena::initialize or ShmArena::attach.
ShmInitializeOrAttachCalled ==
    /\ life_steps' = life_steps + 1
    /\ life_ret'.op \in { "initialize", "attach" }

\* C12: an initialize of an MmapArena whose pool is published, and an
\* initialize or attach of a ShmArena that is initialized, fails and changes
\* nothing: base, pool size, alignment, name, owner flag, cursor, counters,
\* the regions and the allocations handed out so far.
C12_InitializeOnOperationalArenaIsNoOp ==
    [][ /\ (MmapInitializeCalled /\ pool_base_ # NULL) =>
             /\ ret'.op = "initialize" /\ ~ret'.ok
             /\ pc' = pc
             /\ UNCHANGED << pool_base_, pool_size_, alignment_, alloc_cursor_,
                             peak_allocated_, num_allocations_,
                             num_failed_allocs_, allocated >>
        /\ (ShmInitializeOrAttachCalled /\ arenas[life_ret'.arena].initialized_) =>
             /\ life_ret'.status = "InvalidArgument"
             /\ UNCHANGED << arenas, regions, region_mem, life_allocs >>
      ]_vars

\* C12 happened on a ShmArena: an arena that is initialized and has handed
\* out an allocation refused an attach.
C12_Witness ==
    /\ life_ret.op = "attach" /\ life_ret.why = "already"
    /\ arenas[life_ret.arena].initialized_
    /\ arenas[life_ret.arena].num_allocations_ > 0

\* C12 happened on an MmapArena: an arena whose pool is published and that has
\* handed out an allocation refused an initialize.
C12_MmapWitness ==
    /\ pool_base_ # NULL /\ ret.op = "initialize" /\ ret.why = "already"
    /\ num_allocations_ > 0

\* The last call was translateOffset on arena life_ret.arena.
Translated == life_ret.op = "translateOffset"

\* C13 (as claimed): translateOffset(offset, size) returns OK only if
\* offset + size, summed without wrapping, is at most pool_size; when the sum
\* exceeds the largest word it returns InvalidArgument and writes no address.
C13_TranslateBoundsOverflowSafe ==
    Translated =>
        /\ life_ret.status = "OK" =>
              life_ret.offset + life_ret.size <= arenas[life_ret.arena].pool_size_
        /\ life_ret.offset + life_ret.size > SIZE_MAX =>
              life_ret.status = "InvalidArgument" /\ life_ret.local_addr = NULL

\* C14 (as claimed): on an initialized arena translateOffset(pool_size, 0)
\* returns InvalidArgument, and translateOffset(pool_size - 1, 1) returns OK
\* with base + pool_size - 1.
C14_TranslatePastTheEnd ==
    (Translated /\ arenas[life_ret.arena].initialized_) =>
        LET a == arenas[life_ret.arena]
        IN  /\ (life_ret.offset = a.pool_size_ /\ life_ret.size = 0) =>
                  life_ret.status = "InvalidArgument"
            /\ (life_ret.offset = a.pool_size_ - 1 /\ life_ret.size = 1) =>
                  /\ life_ret.status = "OK"
                  /\ life_ret.local_addr = a.pool_base_ + a.pool_size_ - 1

\* C15 (as claimed): whenever translateOffset(offset, size) returns OK,
\* getOffset of the address it wrote is offset.
C15_GetOffsetInvertsTranslate ==
    (Translated /\ life_ret.status = "OK") => life_ret.back = life_ret.offset

\* The step is a call of ShmArena::attach on arena i.
AttachCalled(i) ==
    /\ life_steps' = life_steps + 1
    /\ life_ret'.op = "attach" /\ life_ret'.arena = i

\* C16: attach(name, expected_size) on an arena that is not initialized
\* returns OK exactly when a region of that name exists, its size is
\* expected_size and the region ends up mapped; when the size attach queried
\* differs from expected_size it returns InvalidArgument, the arena stays
\* uninitialized, nothing is mapped and no name is unlinked.
C16_AttachSucceedsIffRegionMatches ==
    [][ \A i \in ArenaIds :
          (AttachCalled(i) /\ ~arenas[i].initialized_) =>
            LET name == arenas'[i].shm_name_
                expected_size == arenas'[i].pool_size_
                found == Linked(name)
                mapped == arenas'[i].mapping # NoRegion /\ arenas'[i].pool_base_ # NULL
            IN  /\ life_ret'.status = "OK" <=>
                      /\ found # {}
                      /\ \A r \in found : r.size = expected_size
                      /\ mapped
                /\ life_ret'.status = "OK" =>
                      arenas'[i].initialized_ /\ arenas'[i].mapping \in { r.id : r \in found }
                /\ ( /\ found # {}
                     /\ \E r \in found : r.size # expected_size
                     /\ life_ret'.why \notin { "shm_open", "fstat" } ) =>
                      /\ life_ret'.status = "InvalidArgument"
                      /\ ~arenas'[i].initialized_
                      /\ arenas'[i].mapping = NoRegion /\ arenas'[i].pool_base_ = NULL
                      /\ regions' = regions /\ life_unlinked' = life_unlinked
      ]_vars

\* An attach returned OK after at least two earlier calls: the arena is mapped
\* onto a region that another arena created and that is still linked.
C16_Witness ==
    /\ life_ret.op = "attach" /\ life_ret.status = "OK"
    /\ life_steps >= 3
    /\ \E r \in regions :
         /\ r.id = arenas[life_ret.arena].mapping
         /\ r.linked /\ r.creator # life_ret.arena

\* C17 (as claimed): every shm_unlink that took a name away was called by the
\* arena whose initialize created the region of that name.
C17_OnlyCreatorUnlinks ==
    \A u \in life_unlinked : u.by = u.creator

\* C18: whenever an arena is attached to the region of a live owner under the
\* owner's getName() and getPoolSize(), translateOffset(alloc.offset,
\* alloc.size) on the attacher returns OK for every allocation of the owner,
\* and every byte the owner wrote at index k of that allocation is what the
\* attacher reads at the returned address plus k.
C18_AttacherReadsOwnersBytes ==
    \A o \in ArenaIds, j \in ArenaIds :
        ( /\ arenas[o].initialized_ /\ arenas[o].is_owner_
          /\ arenas[j].initialized_ /\ ~arenas[j].is_owner_
          /\ arenas[j].shm_name_ = arenas[o].shm_name_
          /\ arenas[j].pool_size_ = arenas[o].pool_size_ ) =>
            /\ \A al \in life_allocs : al.arena = o =>
                  translateOffset(arenas[j], al.offset, al.size).status = "OK"
            /\ \A w \in life_written : w.alloc.arena = o =>
                  ReadByte(arenas[j],
                           translateOffset(arenas[j], w.alloc.offset,
                                           w.alloc.size).local_addr + w.k)
                    = w.value

\* An owner wrote a byte into one of its allocations and an arena attached
\* under the owner's name and pool size reads it back.
C18_Witness ==
    \E o \in ArenaIds, j \in ArenaIds, w \in life_written :
        /\ arenas[o].initialized_ /\ arenas[o].is_owner_ /\ w.alloc.arena = o
        /\ arenas[j].initialized_ /\ ~arenas[j].is_owner_
        /\ arenas[j].shm_name_ = arenas[o].shm_name_
        /\ w.value # 0
        /\ ReadByte(arenas[j], MapBase(j) + w.alloc.offset + w.k) = w.value

\* C19 (as claimed): a relocate by a peer adapter for a range inside a buffer
\* that a still installed owner allocated from its arena and published returns
\* OK, whatever the buffer's length up to the pool size, and rewrites the
\* target to the peer's mapping of the owner's region plus the same offset.
C19_RelocateSucceedsForEveryLength ==
    ( /\ ad_ret.op = "relocate"
      /\ ad_ret.adapter # ad_ret.target.segment
      /\ ad_ret.target.length <= AdapterConfig.pool_size
      /\ adapters[ad_ret.target.segment].installed_
      /\ heap[adapters[ad_ret.target.segment].local_arena_].shm_name_
           = ad_ret.target.shm_path ) =>
        /\ ad_ret.status = "OK"
        /\ ad_ret.via # NoArena
        /\ heap[ad_ret.via].shm_name_ = ad_ret.target.shm_path
        /\ ad_ret.dest_addr = MapBase(ad_ret.via) + ad_ret.offset

\* C20 (as claimed): an adapter that is not installed holds no remote arena in
\* its map and no thread-local cache holds an arena it attached; and a
\* relocate that returned OK translated through an arena attached during the
\* current installation of the adapter that attached it.
C20_UninstallClearsEveryCache ==
    /\ \A p \in AdapterIds : ~adapters[p].installed_ =>
          /\ \A target_id \in AdapterIds :
                adapters[p].remote_arenas_[target_id] = NoArena
          /\ \A t \in Threads, target_id \in AdapterIds :
                tl_arena_cache[t][target_id] # NoArena =>
                    heap[tl_arena_cache[t][target_id]].by # p
    /\ (ad_ret.op = "relocate" /\ ad_ret.status = "OK") =>
          /\ adapters[heap[ad_ret.via].by].installed_
          /\ heap[ad_ret.via].installs = adapters[heap[ad_ret.via].by].installs

\* C21: as long as only getOrCreateArena has been called, for every name all
\* successful calls returned the same handle, exactly one arena was created
\* and initialized for a name that any call succeeded for (never two), and
\* the registry holds at most one entry per name.
C21_OneArenaPerName ==
    /\ \A e1 \in pm_arenas_, e2 \in pm_arenas_ : e1.name = e2.name => e1 = e2
    /\ pm_log.others = 0 =>
          \A name \in PmKeys :
            LET returned == { e.arena : e \in { x \in pm_log.returned : x.name = name } }
                created == { e.arena : e \in { x \in pm_log.created : x.name = name } }
            IN  /\ Cardinality(returned) <= 1
                /\ Cardinality(created) <= 1
                /\ returned \subseteq created
                /\ \A h \in returned : pm_heap[h].initialized_ /\ pm_heap[h].is_owner_

\* Two getOrCreateArena calls for one name have returned the same handle, one
\* of them having waited for the mutex while the other created the arena.
C21_Witness ==
    /\ pm_log.others = 0
    /\ \E h \in DOMAIN pm_held : pm_held[h] >= 2
    /\ pm_ret.op = "getOrCreateArena" /\ pm_ret.status = "OK"

\* The registry has an entry for arena h.
PmRegistered(h) == \E e \in pm_arenas_ : e.arena = h

\* C22: an arena that a caller still holds a handle for, or that the registry
\* still names, is not torn down: it is alive, initialized, mapped, and its
\* name is linked if it is the owner; an arena is torn down only with no
\* registry entry and no handle left; and a use (allocate, translateOffset) of
\* a held handle never finds the arena uninitialized and translates what it
\* allocated.
C22_ArenaOutlivesRegistryEntry ==
    /\ \A h \in DOMAIN pm_held :
          /\ (pm_held[h] > 0 \/ PmRegistered(h)) =>
                /\ pm_heap[h].alive /\ pm_heap[h].initialized_
                /\ pm_heap[h].pool_base_ # NULL
                /\ pm_heap[h].is_owner_ =>
                      \E r \in pm_names : r.name = pm_heap[h].shm_name_
          /\ ~pm_heap[h].alive => pm_held[h] = 0 /\ ~PmRegistered(h)
    /\ pm_ret.op = "use" =>
          \/ pm_ret.status = "OK"
          \/ /\ pm_ret.status = "InternalError"
             /\ pm_heap[pm_ret.arena].alloc_cursor_ + 64 > pm_heap[pm_ret.arena].pool_size_

\* After removeArena took the entry of an owner arena away, a caller holding
\* a handle from before allocated from it and translated the offset.
C22_Witness ==
    /\ pm_ret.op = "use" /\ pm_ret.status = "OK"
    /\ ~PmRegistered(pm_ret.arena)
    /\ pm_heap[pm_ret.arena].is_owner_
    /\ pm_heap[pm_ret.arena].alloc_cursor_ > 0

\* C23 (as claimed): the arena that a successful attachArena(name,
\* expected_size) hands out has pool size expected_size.
C23_AttachArenaSizeMatches ==
    (pm_ret.op = "attachArena" /\ pm_ret.status = "OK") =>
        pm_heap[pm_ret.arena].pool_size_ = pm_ret.expected_size

\* The cursor when the allocate that returned last was called, its calls
\* running one after the other (a failed call leaves the cursor alone).
CursorAtCall == IF ret.ptr = NULL THEN alloc_cursor_ ELSE ret.raw

\* C24 (as claimed): with the calls running one after the other on an
\* initialized arena, an allocate of exactly pool_size - cursor bytes (more
\* than none) returns a pointer and leaves the cursor at pool_size, and an
\* allocate of a non-zero size called with the cursor at pool_size returns
\* null and leaves the cursor there.
C24_RemainingCapacityAllocates ==
    ( /\ MmapQuiescent
      /\ ret.op = "allocate" /\ ret.pool_base # NULL /\ ret.size > 0 ) =>
        /\ ret.size = pool_size_ - CursorAtCall =>
              ret.ptr # NULL /\ alloc_cursor_ = pool_size_
        /\ CursorAtCall = pool_size_ =>
              ret.ptr = NULL /\ alloc_cursor_ = pool_size_

\* C25: on a MmapArena and on a ShmArena alike, once every allocate call
\* (non-zero size, initialized arena, no reset) has returned, num_allocations
\* is the number of calls that returned success and num_failed_allocs the
\* number that returned failure, so that the two sum to the attempts.
C25_CountersMatchReturns ==
    /\ MmapQuiescent =>
          /\ getStats.num_allocations = BagCardinality(allocated)
          /\ getStats.num_failed_allocs = failed_returns
    /\ (ShmQuiescent /\ shm_resets = 0) =>
          /\ ShmGetStats.num_allocations = BagCardinality(shm_allocated)
          /\ ShmGetStats.num_failed_allocs = shm_failed_returns

\* Threads of a ShmArena have returned from successful and from failed calls,
\* one of the failures concurrent with another call.
C25_Witness ==
    /\ ShmQuiescent /\ shm_calls = ShmMaxCalls
    /\ BagCardinality(shm_allocated) >= 2
    /\ shm_failed_returns >= 2
    /\ BagCardinality(shm_allocated) + shm_failed_returns = ShmMaxCalls

\* The same on a MmapArena.
C25_MmapWitness ==
    /\ MmapQuiescent /\ calls = MaxCalls
    /\ BagCardinality(allocated) >= 1
    /\ failed_returns >= 1

\* A thread is between the compare-exchange that moved the cursor and the
\* end of its peak update (mmap_arena.cpp:187-208).
PeakUpdatePending ==
    \E t \in Threads : pc[t] \in { "count", "load_peak", "peak_cas" }

\* C26: peak_allocated of a MmapArena never decreases, and it is below the
\* cursor only while some allocate is between its cursor compare-exchange and
\* its peak update; so with no allocate in progress peak_allocated >= cursor.
C26_PeakFollowsCursor ==
    /\ [][peak_allocated_' >= peak_allocated_]_vars
    /\ [](peak_allocated_ < alloc_cursor_ => PeakUpdatePending)
    /\ [](MmapQuiescent => getStats.peak_allocated >= getStats.allocated_bytes)

\* The peak, raised by one allocate already, lags the cursor that a second
\* allocate has moved.
C26_Witness ==
    /\ peak_allocated_ > 0
    /\ peak_allocated_ < alloc_cursor_
    /\ PeakUpdatePending

\* The allocation handles returned with OK since the last reset().
ShmSinceReset == { a \in BagToSet(shm_allocated) : a.after_resets = shm_resets }

C28_OwnsExactlyThePool ==
    ret.op = "owns" =>
        /\ ret.result = ( /\ ret.pool_base # NULL
                          /\ ret.pool_base <= ret.ptr
                          /\ ret.ptr < ret.pool_base + ret.pool_size )
        /\ ret.ptr = NULL => ~ret.result
        /\ ret.pool_base = NULL => ~ret.result
        /\ ( /\ ret.pool_base # NULL
             /\ ret.ptr \in { ret.pool_base - 1, ret.pool_base + ret.pool_size } ) =>
              ~ret.result

\* owns returned true for the last byte of the pool.
C28_Witness ==
    /\ ret.op = "owns" /\ ret.result
    /\ ret.ptr = ret.pool_base + ret.pool_size - 1

\* owns returned false for a pointer while initialize had stored pool_size_
\* and not yet published pool_base_.
C28_UninitializedWitness ==
    /\ ret.op = "owns" /\ ~ret.result
    /\ ret.pool_base = NULL /\ ret.pool_size > 0 /\ ret.ptr \in MmapBases

\* A configuration the claim says initialize rejects: pool_size 0, or an
\* alignment that is neither 0 nor a power of two.
RejectedConfig(config) ==
    \/ config.pool_size = 0
    \/ /\ config.alignment # 0
       /\ BitAnd(config.alignment, config.alignment - 1) # 0

\* C29 (as claimed): ShmArena::initialize called with a pool_size of 0, or
\* with an alignment that is neither 0 nor a power of two, returns an
\* invalid-argument error, creates no shared-memory object and leaves the
\* arena as uninitialized as it was.
C29_InitializeRejectsBadConfig ==
    [][ ( /\ shm_ret' # shm_ret
          /\ shm_ret'.op = "initialize"
          /\ RejectedConfig(shm_ret'.config) ) =>
            /\ shm_ret'.status = "InvalidArgument"
            /\ shm_objects' = shm_objects
            /\ shm'.initialized_ = shm.initialized_ ]_vars

\* C30 (as claimed): MmapArena::allocate(size, alignment) called with a
\* per-call alignment that is non-zero and not a power of two returns null,
\* whatever the arena's own alignment is (a call that returns null has not
\* moved the cursor, C5).
C30_AllocateRejectsBadAlignment ==
    ( /\ ret.op = "allocate"
      /\ ret.alignment # 0
      /\ BitAnd(ret.alignment, ret.alignment - 1) # 0 ) =>
        ret.ptr = NULL

\* Arena i went through an initialize that failed and has not been
\* initialized since.
InitializeFailed(i) ==
    arenas[i].shm_name_ # NoName /\ ~arenas[i].initialized_

\* C31: after ShmArena::initialize has failed at its create, resize or map
\* step the arena is uninitialized: isInitialized() is false, base is null,
\* no descriptor is open and no shared-memory object the arena created keeps
\* its name; allocate, translateOffset and reset on it return an error.
C31_FailedInitializeLeavesUninitialized ==
    /\ \A i \in ArenaIds :
          InitializeFailed(i) =>
              /\ arenas[i].pool_base_ = NULL
              /\ arenas[i].shm_fd_ = NO_FD
              /\ arenas[i].mapping = NoRegion
              /\ \A r \in regions : r.creator = i => ~r.linked
    /\ ( /\ life_ret.op \in { "allocate", "translateOffset", "reset" }
         /\ InitializeFailed(life_ret.arena) ) =>
              life_ret.status # "OK"

\* reset has been refused on an arena whose initialize failed after it had
\* created and sized the object, which has lost its name again.
C31_Witness ==
    /\ life_ret.op = "reset" /\ life_ret.status = "InvalidArgument"
    /\ InitializeFailed(life_ret.arena)
    /\ \E r \in regions : r.creator = life_ret.arena /\ r.size > 0 /\ ~r.linked

\* C32 (as claimed): an initialize that asks for huge pages on a host where
\* the mapping fails with MAP_HUGETLB and would succeed without it returns OK
\* and leaves the arena operational.
C32_HugePageFallback ==
    ( /\ life_ret.op = "initialize"
      /\ life_ret.why = "hugetlb" ) =>
        /\ life_ret.status = "OK"
        /\ arenas[life_ret.arena].initialized_

\* What an allocate call has loaded so far agrees with what the one
\* successful initialize stored: f is its frame, or what it returned with.
LoadedWhatInitializeStored(f, loaded_alignment, loaded_pool_size) ==
    /\ init_log.wins = 1
    /\ f.pool_base = init_log.winner.pool_base
    /\ loaded_alignment =>
          f.effective_alignment = Max(init_log.winner.actual_alignment, f.alignment)
    /\ loaded_pool_size =>
          f.pool_size = init_log.winner.aligned_pool_size /\ f.pool_size # 0

\* C33: with allocate calls racing one initialize, every allocate either
\* returns as not initialized or, having seen a non-null base, goes on with
\* the alignment and the pool_size that initialize stored: never with a
\* pool_size of 0 or the alignment from before the call.
C33_AllocateSeesPublishedFields ==
    /\ \A t \in Threads :
          frame[t].op = "allocate" =>
              LoadedWhatInitializeStored(
                  frame[t],
                  pc[t] \notin { "load_alignment" },
                  pc[t] \notin { "load_alignment", "load_pool_size" })
    /\ ret.op = "allocate" =>
          \/ ret.why = "not_initialized" /\ ret.ptr = NULL /\ ret.pool_base = NULL
          \/ LoadedWhatInitializeStored(
                  ret, ret.why # "zero_size",
                  ret.why \notin { "zero_size", "size_overflow" })

\* Three calls were made, one of them the initialize that stored an alignment
\* of 256; an allocate with no alignment of its own returned a block with it.
C33_Witness ==
    /\ calls = MaxCalls
    /\ ret.op = "allocate" /\ ret.ptr # NULL
    /\ ret.alignment = 0 /\ ret.effective_alignment = 256
    /\ init_log.valid_calls = 1

\* C34 (as claimed): a relocateSharedMemoryAddress call that found its target
\* segment in the calling thread's cache never goes on to
\* remote_arenas_mutex_, whatever offset and length it asked for: no thread
\* waits for the mutex or holds it after a cache hit.
C34_CacheHitNeverLocks ==
    \A t \in Threads : rl_pc[t] # "idle" => ~rl_frame[t].hit

\* The arena objects adapter p attached to the shared-memory object name.
AttachedBy(p, name) ==
    { h \in DOMAIN heap : /\ heap[h].by = p /\ heap[h].initialized_
                          /\ ~heap[h].is_owner_ /\ heap[h].shm_name_ = name }

\* C35: however the relocateSharedMemoryAddress calls of several threads for
\* one remote segment interleave, an adapter attaches the remote arena at
\* most once, exactly once as soon as its map holds the segment, and the
\* cache entry of every thread is the handle in the map of the adapter that
\* attached it.
C35_RemoteArenaAttachedOnce ==
    /\ \A p \in AdapterIds, b \in buffers :
          /\ Cardinality(AttachedBy(p, b.shm_path)) <= 1
          /\ adapters[p].remote_arenas_[b.segment] # NoArena =>
                AttachedBy(p, b.shm_path) = { adapters[p].remote_arenas_[b.segment] }
    /\ \A t \in Threads, target_id \in AdapterIds :
          LET h == tl_arena_cache[t][target_id]
          IN  h # NoArena =>
                adapters[heap[h].by].remote_arenas_[target_id] = h

\* Two threads are inside the slow path for one segment of one adapter at
\* the same time, both past the lock and holding the one attached arena.
C35_Witness ==
    \E t \in Threads, u \in Threads :
        /\ t # u
        /\ rl_pc[t] = "cache" /\ rl_pc[u] = "cache"
        /\ rl_frame[t].adapter = rl_frame[u].adapter
        /\ rl_frame[t].buffer.segment = rl_frame[u].buffer.segment
        /\ rl_frame[t].known = rl_frame[u].known
        /\ AttachedBy(rl_frame[t].adapter, rl_frame[t].buffer.shm_path)
              = { rl_frame[t].known }

\* The bytes of the handles in S, each counted as often as it was returned.
RECURSIVE HandleBytes(_)
HandleBytes(S) ==
    IF S = {} THEN 0
    ELSE LET a == CHOOSE x \in S : TRUE
         IN  a.size * CopiesIn(a, shm_allocated) + HandleBytes(S \ { a })

\* The bytes of the calls that have taken their range and not yet returned.
RECURSIVE ReservedBytes(_)
ReservedBytes(T) ==
    IF T = {} THEN 0
    ELSE LET t == CHOOSE x \in T : TRUE
         IN  shm_frame[t].aligned_size + ReservedBytes(T \ { t })

\* What the successful allocations since the last reset occupy, those that
\* hold their range and are about to return OK included.
ShmOccupied ==
    HandleBytes(ShmSinceReset)
      + ReservedBytes({ t \in Threads :
                          shm_pc[t] \in { "count", "load_peak", "peak_cas" } })

\* C36 (as claimed): whenever a ShmArena allocate returns "pool exhausted",
\* the allocations that succeeded since the last reset plus the aligned size
\* of the failing request exceed pool_size, whatever other failing calls run
\* at the same time.
C36_ExhaustionOnlyWhenFull ==
    [][ \A t \in Threads :
          ( shm_pc[t] = "count_failure" /\ shm_pc'[t] = "idle" ) =>
              ShmOccupied + shm_frame[t].aligned_size > ShmGetStats.pool_size ]_vars

InAllocate(t) == pc[t] \in { "load_cursor", "cas", "count", "load_peak", "peak_cas" }

\* C37: every allocate call of MmapArena returns: a thread inside the cursor
\* loop or the peak loop is later outside allocate, whatever the other
\* threads do, and at no state does it wait for a lock: a step of its own is
\* always possible.
C37_AllocateAlwaysReturns ==
    /\ \A t \in Threads : InAllocate(t) ~> ( pc[t] = "idle" )
    /\ [] ( \A t \in Threads : InAllocate(t) => ENABLED << AllocStep(t) >>_vars )

\* A call that lost the cursor compare-exchange to another call, whose
\* allocation has returned, and is about to try again.
C37_Witness ==
    \E t \in Threads :
        /\ pc[t] = "load_cursor"
        /\ frame[t].raw > 0
        /\ ret.op = "allocate" /\ ret.ptr # NULL
        /\ alloc_cursor_ = frame[t].raw

\* The compare-exchange of thread t's allocate succeeds in this step.
CursorReserved(t) == pc[t] = "cas" /\ pc'[t] = "count"

\* C38: when an allocate of MmapArena reserves its range, the offset is the
\* cursor value the compare-exchange replaced rounded up to the effective
\* alignment max(arena alignment, per-call alignment), the size is the
\* requested size rounded up to it, and the new cursor is their sum; so both
\* are multiples of the effective alignment, and the cursor stays a multiple
\* of the arena's alignment.
C38_ReservationArithmetic ==
    [][ \A t \in Threads :
          CursorReserved(t) =>
              LET f == frame'[t]
                  ea == Max(alignment_, f.alignment)
              IN  /\ f.effective_alignment = ea
                  /\ f.aligned_offset = MathAlignUp(alloc_cursor_, ea)
                  /\ f.aligned_size = MathAlignUp(f.size, ea)
                  /\ alloc_cursor_' = f.aligned_offset + f.aligned_size
                  /\ f.aligned_offset % ea = 0
                  /\ f.aligned_size % ea = 0
                  /\ alloc_cursor_ % alignment_ = 0
                  /\ alloc_cursor_' % alignment_ = 0 ]_vars

\* An allocation with a per-call alignment above the arena's has been handed
\* out behind an earlier one, with padding skipped in front of it.
C38_Witness ==
    \E a, b \in Allocations :
        /\ a.effective_alignment > alignment_
        /\ a.alignment = a.effective_alignment
        /\ b.offset + b.size < a.offset
        /\ alloc_cursor_ = a.offset + a.size

\* C39 (as claimed): while the ShmArena has not been reset and no allocate
\* call is in progress, getStats().peak_allocated equals
\* getStats().allocated_bytes, whatever allocate calls, succeeding and
\* failing, came before.
C39_PeakEqualsAllocatedAtRest ==
    ( shm.initialized_ /\ shm_resets = 0 /\ ShmQuiescent ) =>
        ShmGetStats.peak_allocated = ShmGetStats.allocated_bytes

\* The call that returns in this step.
AdReturns(op) == ad_steps' # ad_steps /\ ad_ret'.op = op /\ ad_ret'.status = "OK"

\* C40 (as claimed): freeLocalMemory, and the deallocate it calls, leave the
\* arena's cursor and counters as they were and only remove the adapter's
\* record of the address; and an allocation made afterwards from the same
\* arena, which is never reset, overlaps no allocation that has been freed.
C40_DeallocationNeverReclaims ==
    [][ /\ AdReturns("freeLocalMemory") =>
              LET p == ad_ret'.adapter
              IN  /\ heap' = heap
                  /\ buffers' = buffers
                  /\ adapters'[p].allocations_ =
                        adapters[p].allocations_ \ { ad_ret'.alloc }
                  /\ \A q \in AdapterIds \ { p } : adapters'[q] = adapters[q]
        /\ AdReturns("allocateLocalMemory") =>
              \A e \in adapters[ad_ret'.adapter].freed :
                  e.arena = ad_ret'.alloc.arena => Disjoint(e, ad_ret'.alloc) ]_vars

====
